---------------------------- MODULE Spec2Model ----------------------------
(***************************************************************************)
(* A model of the kinematic core of ambf_addon.py (the Blender add-on that *)
(* writes and loads AMBF description files): the hierarchy ordering pass,  *)
(* the joint-kind lookups, the joint export (pivot / axis / offset         *)
(* extraction), the joint import (pose composition) and the load pass.     *)
(*                                                                         *)
(* Each part of the program is a specification of its own over its own     *)
(* variables; the variables of the other parts stay at their idle values.  *)
(***************************************************************************)
EXTENDS Integers, Sequences, FiniteSets, TLC

VARIABLES
    \* ---- populate_heirarchial_tree (SpecTree)
    tparent,      \* obj_handle.parent of every object of bpy.data.objects
    added,        \* _added_bodies_list: object -> added flag
    hlist,        \* _heirarchial_bodies_list
    objIdx,       \* position of the second `for obj_handle in bpy.data.objects`
    gp,           \* grand_parent of get_grand_parent (None outside the walk)
    stack,        \* pending downward_tree_pass calls, innermost first
    tpc           \* position in populate_heirarchial_tree

treeVars == <<tparent, added, hlist, objIdx, gp, stack, tpc>>

VARIABLES
    \* ---- the joint-kind lookups of the loader (SpecKind)
    jtype,        \* joint_data['type'] (NoField: the record has no such key)
    kindAmbf,     \* what get_ambf_joint_type returned
    kindBlender,  \* what get_blender_joint_type returned
    stdAxis       \* what get_standard_pivot_and_axis_data returned

kindVars == <<jtype, kindAmbf, kindBlender, stdAxis>>

VARIABLES
    \* ---- joint export and the composition of its record (SpecExport)
    scene,        \* the exported joint: its objects, their poses, its constraint
    jdata,        \* what the export made of it: the joint_data record, or none
    ignoreOffsets,\* scene.ignore_ambf_joint_offsets of the loading scene
    Tcw,          \* T_c_w of get_child_in_world_transform for that record
    offsetAngle,  \* what get_joint_offset_angle returned for that record
    epc           \* position: "scene", "exported", "composed"

exportVars == <<scene, jdata, ignoreOffsets, Tcw, offsetAngle, epc>>

VARIABLES
    \* ---- the joint loop of AMBF_OT_load_ambf_file.execute (SpecLoad)
    joints,       \* the joint records of the document, in `joints` order
    legacy,       \* scene.enable_legacy_loading
    mw,           \* matrix_world of every object (bodies, then joint empties)
    oparent,      \* obj.parent of every object
    jIdx,         \* joints loaded so far
    log           \* the matrix_world assignments made to bodies, in order

loadVars == <<joints, legacy, mw, oparent, jIdx, log>>

VARIABLES
    \* ---- AMBF_OT_load_ambf_file.execute from the bodies on (SpecPass)
    pdoc,         \* the joint records as the document has them
    pjoints,      \* self._ambf_data[joint_name] of every joint of `joints`
    plegacy,      \* scene.enable_legacy_loading
    padjust,      \* scene.adjust_joint_pivots
    tjc,          \* self._body_T_j_c
    tjcWrites,    \* the assignments adjust_body_pivots_and_axis made to it
    pmw,          \* matrix_world of every object
    pparent,      \* obj.parent of every object
    aIdx,         \* joints the loop of adjust_body_pivots_and_axis has taken
    pIdx,         \* joints the joint loop of execute has loaded
    perr,         \* the exception that left execute (None: none)
    ppc           \* position: "bodies", "adjust", "joints", "finished", "raised"

passVars == <<pdoc, pjoints, plegacy, padjust, tjc, tjcWrites, pmw, pparent,
              aIdx, pIdx, perr, ppc>>

VARIABLES
    \* ---- rot_matrix_from_vecs and get_rot_mat_from_vecs (SpecRot)
    rv1,          \* the first vector
    rv2,          \* the second vector
    rout,         \* what rot_matrix_from_vecs(rv1, rv2) returned or raised
    rget          \* what get_rot_mat_from_vecs(rv1, rv2) returned

rotVars == <<rv1, rv2, rout, rget>>

VARIABLES
    \* ---- the namespace functions (SpecNs)
    sceneNs,      \* context.scene.ambf_namespace
    commonNs,     \* CommonConfig.namespace
    fullName,     \* the full name of an object
    nsOut,        \* get_body_namespace and remove_namespace_prefix of it
    nsCalls       \* the calls of update_global_namespace made, with outcomes

nsVars == <<sceneNs, commonNs, fullName, nsOut, nsCalls>>

VARIABLES
    \* ---- AMBF_OT_generate_ambf_file.generate_ambf_yaml (SpecDoc)
    dobjs,              \* the objects of the scene, in hierarchy order
    dlegacy,            \* scene.enable_legacy_loading
    dIdx,               \* objects the running loop has taken
    dpc,                \* position: "start", "bodies", "joints", "dumped"
    body_names_list,    \* self._body_names_list
    joint_names_list,   \* self._joint_names_list
    ambf_yaml           \* self._ambf_yaml: the records by their key

docVars == <<dobjs, dlegacy, dIdx, dpc, body_names_list, joint_names_list,
             ambf_yaml>>

VARIABLES
    \* ---- the body loop of AMBF_OT_load_ambf_file.execute (SpecBodies)
    wbodies,      \* self._ambf_data['bodies'] with the record of each name
    wobjects,     \* bpy.data.objects: name and type of every object
    remapped,     \* self._blender_remapped_body_names
    wtjc,         \* self._body_T_j_c
    wIdx,         \* bodies the loop has taken
    werr,         \* the exception that left execute ("none": none)
    wpc           \* position: "bodies", "joints", "finished", "raised"

bodyVars == <<wbodies, wobjects, remapped, wtjc, wIdx, werr, wpc>>

VARIABLES
    \* ---- the activate operators (SpecActivate)
    aobj,         \* the AMBF properties of every object
    aops          \* number of operator calls made

actVars == <<aobj, aops>>

vars == <<treeVars, kindVars, exportVars, loadVars, passVars, rotVars,
          nsVars, docVars, bodyVars, actVars>>

notTree == <<kindVars, exportVars, loadVars, passVars, rotVars,
            nsVars, docVars, bodyVars, actVars>>
notKind == <<treeVars, exportVars, loadVars, passVars, rotVars,
            nsVars, docVars, bodyVars, actVars>>
notExport == <<treeVars, kindVars, loadVars, passVars, rotVars,
            nsVars, docVars, bodyVars, actVars>>
notLoad == <<treeVars, kindVars, exportVars, passVars, rotVars,
            nsVars, docVars, bodyVars, actVars>>
notPass == <<treeVars, kindVars, exportVars, loadVars, rotVars,
            nsVars, docVars, bodyVars, actVars>>
notRot == <<treeVars, kindVars, exportVars, loadVars, passVars,
            nsVars, docVars, bodyVars, actVars>>
notNs == <<treeVars, kindVars, exportVars, loadVars, passVars, rotVars,
            docVars, bodyVars, actVars>>
\* generate_ambf_yaml writes the namespace of the scene and of CommonConfig
notDoc == <<treeVars, kindVars, exportVars, loadVars, passVars, rotVars,
            fullName, nsOut, nsCalls, bodyVars, actVars>>
notBodies == <<treeVars, kindVars, exportVars, loadVars, passVars, rotVars,
            nsVars, docVars, actVars>>
notActivate == <<treeVars, kindVars, exportVars, loadVars, passVars, rotVars,
            nsVars, docVars, bodyVars>>

None == 0

\* Number of objects of bpy.data.objects in the modelled scenes.
MaxBodies == 4

Objects == 1..MaxBodies

\* A dict key that is absent, and a result not computed yet.
NoField == "<absent>"
Unset == "<unset>"

\* The values the variables of a part keep while another part runs.
TreeIdle ==
    /\ tparent = [b \in Objects |-> None]
    /\ added = [b \in Objects |-> FALSE]
    /\ hlist = <<>>
    /\ objIdx = 0
    /\ gp = None
    /\ stack = <<>>
    /\ tpc = "idle"

KindIdle ==
    /\ jtype = NoField
    /\ kindAmbf = Unset
    /\ kindBlender = Unset
    /\ stdAxis = [outcome |-> Unset]

ExportIdle ==
    /\ scene = Unset
    /\ jdata = Unset
    /\ ignoreOffsets = FALSE
    /\ Tcw = Unset
    /\ offsetAngle = Unset
    /\ epc = "idle"

LoadIdle ==
    /\ joints = <<>>
    /\ legacy = FALSE
    /\ mw = <<>>
    /\ oparent = <<>>
    /\ jIdx = 0
    /\ log = <<>>

PassIdle ==
    /\ pdoc = <<>>
    /\ pjoints = <<>>
    /\ plegacy = FALSE
    /\ padjust = FALSE
    /\ tjc = <<>>
    /\ tjcWrites = <<>>
    /\ pmw = <<>>
    /\ pparent = <<>>
    /\ aIdx = 0
    /\ pIdx = 0
    /\ perr = None
    /\ ppc = "idle"

\* A call that has not been made.
NoResult == [outcome |-> Unset]

RotIdle ==
    /\ rv1 = Unset
    /\ rv2 = Unset
    /\ rout = NoResult
    /\ rget = NoResult

NsIdle ==
    /\ sceneNs = <<>>
    /\ commonNs = <<>>
    /\ fullName = <<>>
    /\ nsOut = NoResult
    /\ nsCalls = <<>>

DocIdle ==
    /\ dobjs = <<>>
    /\ dlegacy = FALSE
    /\ dIdx = 0
    /\ dpc = "idle"
    /\ body_names_list = <<>>
    /\ joint_names_list = <<>>
    /\ ambf_yaml = <<>>

BodiesIdle ==
    /\ wbodies = <<>>
    /\ wobjects = <<>>
    /\ remapped = <<>>
    /\ wtjc = <<>>
    /\ wIdx = 0
    /\ werr = "none"
    /\ wpc = "idle"

ActivateIdle ==
    /\ aobj = <<>>
    /\ aops = 0

\* The parts added last stay idle while one of the others runs.
RestIdle == NsIdle /\ DocIdle /\ BodiesIdle /\ ActivateIdle

-----------------------------------------------------------------------------
(***************************************************************************)
(* Hierarchy ordering: get_grand_parent, downward_tree_pass,               *)
(* populate_heirarchial_tree.                                              *)
(***************************************************************************)

\* The objects whose parent is b, in the order of bpy.data.objects
\* (obj_handle.children).
RECURSIVE ChildrenFrom(_, _)
ChildrenFrom(b, i) ==
    IF i > MaxBodies THEN <<>>
    ELSE IF tparent[i] = b THEN <<i>> \o ChildrenFrom(b, i + 1)
    ELSE ChildrenFrom(b, i + 1)

Children(b) == ChildrenFrom(b, 1)

\* The structural ancestors of b under parent links p, walking at most
\* MaxBodies links.
RECURSIVE AncestorsUpTo(_, _, _)
AncestorsUpTo(p, b, n) ==
    IF n = 0 \/ p[b] = None THEN {}
    ELSE {p[b]} \cup AncestorsUpTo(p, p[b], n - 1)

Ancestors(p, b) == AncestorsUpTo(p, b, MaxBodies)

\* Parent links without a cycle: a forest.
IsForest(p) == \A b \in Objects : b \notin Ancestors(p, b)

Forests == {p \in [Objects -> Objects \cup {None}] : IsForest(p)}

\* populate_heirarchial_tree up to the second loop: every flag is False and
\* the list is empty.
InitTree ==
    /\ tparent \in Forests
    /\ added = [b \in Objects |-> FALSE]
    /\ hlist = <<>>
    /\ objIdx = 0
    /\ gp = None
    /\ stack = <<>>
    /\ tpc = "loop"
    /\ KindIdle
    /\ ExportIdle
    /\ LoadIdle
    /\ PassIdle
    /\ RotIdle
    /\ RestIdle

\* `for obj_handle in bpy.data.objects:` takes the next object and enters
\* get_grand_parent with grand_parent = body.
TreeNextObject ==
    /\ tpc = "loop"
    /\ objIdx < MaxBodies
    /\ objIdx' = objIdx + 1
    /\ gp' = objIdx + 1
    /\ tpc' = "climb"
    /\ UNCHANGED <<tparent, added, hlist, stack>>
    /\ UNCHANGED notTree

\* The loop condition of get_grand_parent left: `grand_parent.parent is not None`
\* is false.
GrandParentReachedNoClimb(b) == TRUE

GrandParentReached(b) == tparent[b] = None

\* One round of `while grand_parent.parent is not None`.
TreeClimb ==
    /\ tpc = "climb"
    /\ ~GrandParentReached(gp)
    /\ gp' = tparent[gp]
    /\ UNCHANGED <<tparent, added, hlist, objIdx, stack, tpc>>
    /\ UNCHANGED notTree

\* get_grand_parent returns; downward_tree_pass is called on the result.
TreeDescend ==
    /\ tpc = "climb"
    /\ GrandParentReached(gp)
    /\ stack' = <<gp>>
    /\ gp' = None
    /\ tpc' = "down"
    /\ UNCHANGED <<tparent, added, hlist, objIdx>>
    /\ UNCHANGED notTree

\* One call of downward_tree_pass: an added body returns at once; another is
\* appended, flagged, and the pass is called on its children in order.
TreeDownward ==
    /\ tpc = "down"
    /\ stack # <<>>
    /\ LET body == Head(stack) IN
        IF added[body]
        THEN /\ stack' = Tail(stack)
             /\ UNCHANGED <<added, hlist>>
        ELSE /\ hlist' = Append(hlist, body)
             /\ added' = [added EXCEPT ![body] = TRUE]
             /\ stack' = Children(body) \o Tail(stack)
    /\ UNCHANGED <<tparent, objIdx, gp, tpc>>
    /\ UNCHANGED notTree

\* The outermost downward_tree_pass has returned.
TreeReturn ==
    /\ tpc = "down"
    /\ stack = <<>>
    /\ tpc' = "loop"
    /\ UNCHANGED <<tparent, added, hlist, objIdx, gp, stack>>
    /\ UNCHANGED notTree

\* `return _heirarchial_bodies_list`
TreeDone ==
    /\ tpc = "loop"
    /\ objIdx = MaxBodies
    /\ tpc' = "done"
    /\ UNCHANGED <<tparent, added, hlist, objIdx, gp, stack>>
    /\ UNCHANGED notTree

NextTree ==
    \/ TreeNextObject
    \/ TreeClimb
    \/ TreeDescend
    \/ TreeDownward
    \/ TreeReturn
    \/ TreeDone

SpecTree == InitTree /\ [][NextTree]_vars

\* Position of body b in the returned list (0 when absent).
RECURSIVE IndexFrom(_, _, _)
IndexFrom(s, b, i) ==
    IF i > Len(s) THEN 0
    ELSE IF s[i] = b THEN i
    ELSE IndexFrom(s, b, i + 1)

IndexOf(s, b) == IndexFrom(s, b, 1)

Occurrences(s, b) == Cardinality({i \in 1..Len(s) : s[i] = b})

\* C1: for every forest of bodies the list returned by
\* populate_heirarchial_tree holds every body exactly once and no body
\* stands before one of its structural ancestors.
C1_HierarchyOrder ==
    tpc = "done" =>
        /\ \A b \in Objects : Occurrences(hlist, b) = 1
        /\ \A b \in Objects : \A a \in Ancestors(tparent, b) :
               IndexOf(hlist, a) < IndexOf(hlist, b)

\* A finished pass over a chain in which every parent is enumerated after
\* its child (3 is the root, then 2, then 1).
C1_Witness ==
    /\ tpc = "done"
    /\ tparent[1] = 2
    /\ tparent[2] = 3
    /\ tparent[3] = None
    /\ hlist[1] = 3

\* The same pass over any parent links, a cycle among them or not.  The
\* calls of the pass run one after the other in the one thread of the
\* add-on, so a step that can be taken is taken.
InitTreeAnyLinks ==
    /\ tparent \in [Objects -> Objects \cup {None}]
    /\ added = [b \in Objects |-> FALSE]
    /\ hlist = <<>>
    /\ objIdx = 0
    /\ gp = None
    /\ stack = <<>>
    /\ tpc = "loop"
    /\ KindIdle
    /\ ExportIdle
    /\ LoadIdle
    /\ PassIdle
    /\ RotIdle
    /\ RestIdle

SpecTreeAnyLinks == InitTreeAnyLinks /\ [][NextTree]_vars /\ WF_vars(NextTree)

\* How the pass can end: `return _heirarchial_bodies_list` ("done"), or an
\* exception leaving populate_heirarchial_tree ("raised"; no statement of
\* the pass raises one).
TreeReported == tpc = "raised"
TreeReturned == tpc = "done"

\* C11: given parent links that form a cycle, the hierarchy-ordering pass
\* terminates and reports the error, instead of looping forever or
\* returning an order.
C11_CycleIsReported == ~IsForest(tparent) => <>TreeReported

\* What the pass does with a cycle: it never ends (get_grand_parent walks
\* round the cycle), while over a forest it always returns.
CyclicPassNeverEnds == ~IsForest(tparent) => [](~TreeReturned /\ ~TreeReported)
ForestPassReturns == IsForest(tparent) => <>TreeReturned

-----------------------------------------------------------------------------
(***************************************************************************)
(* Vector and matrix arithmetic (mathutils and math as the add-on uses     *)
(* them).  A float is held as an integer count of 10^-Digits, the          *)
(* precision round(x, 4) emits: round(x, 4) leaves such a value as it is,  *)
(* an axis-aligned rotation and an integer translation are exact, and an   *)
(* angle is a count of 10^-Digits radians.  A                              *)
(* 3x3 matrix is a tuple of three rows; a 4x4 transform matrix is the      *)
(* record [R |-> its 3x3 block, t |-> its translation column].             *)
(***************************************************************************)

\* The decimal places of round(x, 4).
Digits == 4

FP == 10 ^ Digits

\* math.pi and its half, in 10^-4 radians.
Pi == 31416
HalfPi == Pi \div 2

Abs(x) == IF x < 0 THEN -x ELSE x

\* A product and a quotient of two floats, rounded to the nearest count.
MulFP(a, b) == (a * b + FP \div 2) \div FP
DivFP(a, b) ==
    IF b < 0 THEN ((-a) * FP + (-b) \div 2) \div (-b)
    ELSE (a * FP + b \div 2) \div b

\* math.sqrt of a non-negative integer: the largest r with r * r <= n.
RECURSIVE ISqrtIn(_, _, _)
ISqrtIn(n, lo, hi) ==
    IF hi - lo <= 1 THEN lo
    ELSE LET mid == (lo + hi) \div 2 IN
         IF mid * mid <= n THEN ISqrtIn(n, mid, hi) ELSE ISqrtIn(n, lo, mid)

ISqrt(n) == IF n <= 0 THEN 0 ELSE ISqrtIn(n, 0, 46341)

\* sqrt of a float, as a float.
SqrtFP(a) == ISqrt(a * FP)

\* sin and cos of an angle of [0, pi/4] by their Taylor series.
SinSmall(x) ==
    LET x2 == MulFP(x, x)
        x3 == MulFP(x, x2)
        x5 == MulFP(x3, x2)
        x7 == MulFP(x5, x2)
    IN  x - (x3 + 3) \div 6 + (x5 + 60) \div 120 - (x7 + 2520) \div 5040

CosSmall(x) ==
    LET x2 == MulFP(x, x)
        x4 == MulFP(x2, x2)
        x6 == MulFP(x4, x2)
    IN  FP - (x2 + 1) \div 2 + (x4 + 12) \div 24 - (x6 + 360) \div 720

\* math.cos and math.sin of an angle of [0, pi], reduced to [0, pi/4].
CosPos(x) ==
    IF x <= HalfPi \div 2 THEN CosSmall(x)
    ELSE IF x <= HalfPi THEN SinSmall(HalfPi - x)
    ELSE IF x <= HalfPi + HalfPi \div 2 THEN -SinSmall(x - HalfPi)
    ELSE -CosSmall(Pi - x)

SinPos(x) ==
    IF x <= HalfPi \div 2 THEN SinSmall(x)
    ELSE IF x <= HalfPi THEN CosSmall(HalfPi - x)
    ELSE IF x <= HalfPi + HalfPi \div 2 THEN CosSmall(x - HalfPi)
    ELSE SinSmall(Pi - x)

\* An angle wrapped into [-pi, pi] (angle_wrap_rad), then its cos and sin.
Wrap(x) == IF x > Pi THEN x - 2 * Pi ELSE IF x < -Pi THEN x + 2 * Pi ELSE x
Cos(x) == CosPos(Abs(Wrap(x)))
Sin(x) == IF Wrap(x) < 0 THEN -SinPos(-Wrap(x)) ELSE SinPos(Wrap(x))

\* math.acos: the angle of [0, pi] whose cosine is c (c is clamped to
\* [-1, 1]); by bisection on the decreasing CosPos.
RECURSIVE AcosIn(_, _, _)
AcosIn(c, lo, hi) ==
    IF hi - lo <= 1 THEN hi
    ELSE LET mid == (lo + hi) \div 2 IN
         IF CosPos(mid) <= c THEN AcosIn(c, lo, mid) ELSE AcosIn(c, mid, hi)

Acos(c) ==
    IF c >= FP THEN 0
    ELSE IF c <= -FP THEN Pi
    ELSE AcosIn(c, 0, Pi)

\* ---- mathutils.Vector
Vec(d) == <<d[1] * FP, d[2] * FP, d[3] * FP>>
VecAdd(a, b) == <<a[1] + b[1], a[2] + b[2], a[3] + b[3]>>
VecNeg(a) == <<-a[1], -a[2], -a[3]>>
Dot(a, b) == MulFP(a[1], b[1]) + MulFP(a[2], b[2]) + MulFP(a[3], b[3])
Cross(a, b) ==
    <<MulFP(a[2], b[3]) - MulFP(a[3], b[2]),
      MulFP(a[3], b[1]) - MulFP(a[1], b[3]),
      MulFP(a[1], b[2]) - MulFP(a[2], b[1])>>
\* vec_norm / Vector.length
Length(a) == ISqrt(a[1] * a[1] + a[2] * a[2] + a[3] * a[3])
\* a over its length len (a itself when the length is 0).
Over(a, len) ==
    IF len = 0 THEN a
    ELSE <<DivFP(a[1], len), DivFP(a[2], len), DivFP(a[3], len)>>
Normalized(a) == Over(a, Length(a))
\* Vector.angle: the angle between the two directions.
Angle(a, b) == Acos(Dot(Normalized(a), Normalized(b)))

\* ---- mathutils.Matrix, 3x3
Identity3 == <<<<FP, 0, 0>>, <<0, FP, 0>>, <<0, 0, FP>>>>
Col(m, j) == <<m[1][j], m[2][j], m[3][j]>>
Transpose3(m) == <<Col(m, 1), Col(m, 2), Col(m, 3)>>
MatVec(m, v) == <<Dot(m[1], v), Dot(m[2], v), Dot(m[3], v)>>
MatMul(a, b) ==
    [i \in 1..3 |-> [j \in 1..3 |-> Dot(a[i], Col(b, j))]]
MatAdd(a, b) == [i \in 1..3 |-> [j \in 1..3 |-> a[i][j] + b[i][j]]]
MatScale(a, k) == [i \in 1..3 |-> [j \in 1..3 |-> MulFP(a[i][j], k)]]
Trace(m) == m[1][1] + m[2][2] + m[3][3]
Det3(m) == Dot(m[1], Cross(m[2], m[3]))
\* Matrix.invert of a 3x3 matrix: the adjugate over the determinant.
Inverse3(m) ==
    LET d == Det3(m)
        c1 == Cross(m[2], m[3])
        c2 == Cross(m[3], m[1])
        c3 == Cross(m[1], m[2])
        adj == <<c1, c2, c3>>
    IN  [i \in 1..3 |-> [j \in 1..3 |-> DivFP(adj[j][i], d)]]

\* skew_mat
skew_mat(v) ==
    <<<<0, -v[3], v[2]>>,
      <<v[3], 0, -v[1]>>,
      <<-v[2], v[1], 0>>>>

\* The rotation of cosine c and sine sn about the unit vector n:
\* c I + sn [n]x + (1 - c) n n^T.
RotationAbout(c, sn, n) ==
    [i \in 1..3 |-> [j \in 1..3 |->
        (IF i = j THEN c ELSE 0)
        + MulFP(sn, skew_mat(n)[i][j])
        + MulFP(FP - c, MulFP(n[i], n[j]))]]

\* Matrix.Rotation(angle, size, axis) about a vector axis: the axis is
\* normalized (a zero axis gives the identity) and the angle wrapped.
Rotation(angle, axis) ==
    IF Length(axis) = 0 THEN Identity3
    ELSE RotationAbout(Cos(angle), Sin(angle), Normalized(axis))

\* Matrix.to_quaternion (mat3_normalized_to_quat): <<w, x, y, z>>.
ToQuaternion(m) ==
    LET tr == (FP + Trace(m)) \div 4 IN
    IF tr > 1
    THEN LET w == SqrtFP(tr) IN
         <<w, DivFP(m[3][2] - m[2][3], 4 * w),
              DivFP(m[1][3] - m[3][1], 4 * w),
              DivFP(m[2][1] - m[1][2], 4 * w)>>
    ELSE IF m[1][1] > m[2][2] /\ m[1][1] > m[3][3]
    THEN LET q == 2 * SqrtFP(FP + m[1][1] - m[2][2] - m[3][3]) IN
         <<DivFP(m[3][2] - m[2][3], q), q \div 4,
           DivFP(m[2][1] + m[1][2], q), DivFP(m[1][3] + m[3][1], q)>>
    ELSE IF m[2][2] > m[3][3]
    THEN LET q == 2 * SqrtFP(FP + m[2][2] - m[1][1] - m[3][3]) IN
         <<DivFP(m[1][3] - m[3][1], q), DivFP(m[2][1] + m[1][2], q),
           q \div 4, DivFP(m[3][2] + m[2][3], q)>>
    ELSE LET q == 2 * SqrtFP(FP + m[3][3] - m[1][1] - m[2][2]) IN
         <<DivFP(m[2][1] - m[1][2], q), DivFP(m[1][3] + m[3][1], q),
           DivFP(m[3][2] + m[2][3], q), q \div 4>>

\* Quaternion.to_axis_angle: the angle is 2 acos(w), the axis the
\* normalized vector part, and (1, 0, 0) when the vector part is zero.
to_axis_angle(q) ==
    [angle |-> 2 * Acos(q[1]),
     axis |-> IF q[2] = 0 /\ q[3] = 0 /\ q[4] = 0 THEN Vec(<<1, 0, 0>>)
              ELSE Normalized(<<q[2], q[3], q[4]>>)]

ToAxisAngle(m) == to_axis_angle(ToQuaternion(m))

\* ---- 4x4 transform matrices
Transform(R, t) == [R |-> R, t |-> t]
Identity4 == Transform(Identity3, <<0, 0, 0>>)
\* a @ b
Compose(a, b) == Transform(MatMul(a.R, b.R), VecAdd(MatVec(a.R, b.t), a.t))
\* Matrix.invert of a transform matrix
InverseOf(ri, t) == Transform(ri, VecNeg(MatVec(ri, t)))
Inverse4(a) == InverseOf(Inverse3(a.R), a.t)
Translation(t) == Transform(Identity3, t)

-----------------------------------------------------------------------------
(***************************************************************************)
(* Joint-kind lookups of AMBF_OT_load_ambf_file: get_blender_joint_type,   *)
(* get_ambf_joint_type, get_standard_pivot_and_axis_data.                  *)
(***************************************************************************)

\* The kind strings of the description format (spec section 4.6).
Vocabulary ==
    {"hinge", "revolute", "continuous", "prismatic", "slider", "spring",
     "linear spring", "angular spring", "torsional spring", "torsion spring",
     "p2p", "point2point", "fixed"}

\* The `type` values of the modelled joint records: the vocabulary, the
\* upper-case spelling the class lookups list, strings of no kind, and a
\* record without the key.
TypeStrings == Vocabulary \cup {"FIXED", "Revolute", "ball", "", NoField}

\* A joint record carrying `type` t (or no type at all).
HasType(t) == t # NoField

\* Whether a branch of the if/elif chain of get_ambf_joint_type matches t.
AmbfTypeListed(t) ==
    t \in {"hinge", "revolute", "continuous"}
        \cup {"prismatic", "slider"}
        \cup {"spring", "linear spring"}
        \cup {"angular spring", "torsional spring", "torsion spring"}
        \cup {"p2p", "point2point"}
        \cup {"fixed", "FIXED"}

\* A lookup whose TORSION_SPRING branch lists no 'angular spring'.
get_ambf_joint_type_less(t) ==
    IF ~HasType(t) THEN "FIXED"
    ELSE IF t \in {"hinge", "revolute", "continuous"} THEN "REVOLUTE"
    ELSE IF t \in {"prismatic", "slider"} THEN "PRISMATIC"
    ELSE IF t \in {"spring", "linear spring"} THEN "LINEAR_SPRING"
    ELSE IF t \in {"torsional spring", "torsion spring"} THEN "TORSION_SPRING"
    ELSE IF t \in {"p2p", "point2point"} THEN "P2P"
    ELSE "FIXED"

get_ambf_joint_type(t) ==
    IF ~HasType(t) THEN "FIXED"
    ELSE IF t \in {"hinge", "revolute", "continuous"} THEN "REVOLUTE"
    ELSE IF t \in {"prismatic", "slider"} THEN "PRISMATIC"
    ELSE IF t \in {"spring", "linear spring"} THEN "LINEAR_SPRING"
    ELSE IF t \in {"angular spring", "torsional spring", "torsion spring"}
         THEN "TORSION_SPRING"
    ELSE IF t \in {"p2p", "point2point"} THEN "P2P"
    ELSE IF t \in {"fixed", "FIXED"} THEN "FIXED"
    ELSE "FIXED"

get_blender_joint_type(t) ==
    IF ~HasType(t) THEN "HINGE"
    ELSE IF t \in {"hinge", "revolute", "continuous"} THEN "HINGE"
    ELSE IF t \in {"prismatic", "slider"} THEN "SLIDER"
    ELSE IF t \in {"spring", "linear spring", "angular spring",
                   "torsional spring", "torsion spring"} THEN "GENERIC_SPRING"
    ELSE IF t \in {"p2p", "point2point"} THEN "POINT"
    ELSE IF t \in {"fixed", "FIXED"} THEN "FIXED"
    ELSE "HINGE"

AxisX == <<1, 0, 0>>
AxisY == <<0, 1, 0>>
AxisZ == <<0, 0, 1>>
Origin == <<0, 0, 0>>

\* A lookup that gives every kind the axis z.
get_standard_pivot_and_axis_data_z(t) ==
    [outcome |-> "ok", pivot |-> Origin, axis |-> AxisZ]

\* get_standard_pivot_and_axis_data: `outcome` is "KeyError" when
\* joint_data['type'] raises, "not understood" when the else branch prints
\* its error, "ok" otherwise; pivot and axis are the returned dicts.
get_standard_pivot_and_axis_data(t) ==
    IF ~HasType(t) THEN [outcome |-> "KeyError"]
    ELSE IF t \in {"hinge", "continuous", "revolute", "fixed"}
         THEN [outcome |-> "ok", pivot |-> Origin, axis |-> AxisZ]
    ELSE IF t \in {"prismatic", "slider"}
         THEN [outcome |-> "ok", pivot |-> Origin, axis |-> AxisX]
    ELSE IF t \in {"spring", "linear spring"}
         THEN [outcome |-> "ok", pivot |-> Origin, axis |-> AxisX]
    ELSE IF t \in {"angular spring", "torsional spring", "torsion spring"}
         THEN [outcome |-> "ok", pivot |-> Origin, axis |-> AxisZ]
    ELSE IF t \in {"p2p", "point2point"}
         THEN [outcome |-> "ok", pivot |-> Origin, axis |-> AxisZ]
    ELSE [outcome |-> "not understood", pivot |-> Origin, axis |-> AxisZ]

InitKind ==
    /\ jtype \in TypeStrings
    /\ kindAmbf = Unset
    /\ kindBlender = Unset
    /\ stdAxis = [outcome |-> Unset]
    /\ TreeIdle
    /\ ExportIdle
    /\ LoadIdle
    /\ PassIdle
    /\ RotIdle
    /\ RestIdle

KindAmbf ==
    /\ kindAmbf = Unset
    /\ kindAmbf' = get_ambf_joint_type(jtype)
    /\ UNCHANGED <<jtype, kindBlender, stdAxis>>
    /\ UNCHANGED notKind

KindBlender ==
    /\ kindBlender = Unset
    /\ kindBlender' = get_blender_joint_type(jtype)
    /\ UNCHANGED <<jtype, kindAmbf, stdAxis>>
    /\ UNCHANGED notKind

KindStdAxis ==
    /\ stdAxis = [outcome |-> Unset]
    /\ stdAxis' = get_standard_pivot_and_axis_data(jtype)
    /\ UNCHANGED <<jtype, kindAmbf, kindBlender>>
    /\ UNCHANGED notKind

NextKind ==
    \/ KindAmbf
    \/ KindBlender
    \/ KindStdAxis

SpecKind == InitKind /\ [][NextKind]_vars

\* The class and the canonical axis the format's table gives a kind string.
TableClass(t) ==
    CASE t \in {"hinge", "revolute", "continuous"} -> "REVOLUTE"
      [] t \in {"prismatic", "slider"} -> "PRISMATIC"
      [] t \in {"spring", "linear spring"} -> "LINEAR_SPRING"
      [] t \in {"angular spring", "torsional spring", "torsion spring"}
             -> "TORSION_SPRING"
      [] t \in {"p2p", "point2point"} -> "P2P"
      [] t = "fixed" -> "FIXED"

TableAxis(t) ==
    IF TableClass(t) \in {"PRISMATIC", "LINEAR_SPRING"} THEN AxisX ELSE AxisZ

\* C6 (as claimed): a `type` that is unknown or missing is never resolved to a
\* kind or an axis; each lookup that ran ended in an error.
C6_UnknownKindIsHardError ==
    jtype \notin Vocabulary =>
        /\ kindAmbf = Unset
        /\ kindBlender = Unset
        /\ stdAxis.outcome \in {Unset, "KeyError"}

\* C7, first half: every string of the vocabulary gets the class and the
\* axis of the table.
C7_TableHolds ==
    jtype \in Vocabulary =>
        /\ kindAmbf # Unset => kindAmbf = TableClass(jtype)
        /\ stdAxis.outcome # Unset =>
               stdAxis.outcome = "ok" /\ stdAxis.axis = TableAxis(jtype)

\* C7 (as claimed): the table holds, and every string a branch of the class
\* lookup lists is understood by the axis lookup as well.
C7_ClassAndAxisLookupsAgree ==
    /\ C7_TableHolds
    /\ (AmbfTypeListed(jtype) /\ stdAxis.outcome # Unset) => stdAxis.outcome = "ok"


-----------------------------------------------------------------------------
(***************************************************************************)
(* The rotation between two axes: rot_matrix_from_vecs (export) and        *)
(* get_rot_mat_from_vecs (load).                                           *)
(***************************************************************************)

\* `if 1.0 - vdot < 0.1` and `elif 1.0 + vdot < 0.1` of rot_matrix_from_vecs
ParallelTol == 1000
\* `if abs(angle) <= 0.1` of get_rot_mat_from_vecs
SmallAngle == 1000
\* `abs(angle) >= 3.13` and `0.1 < abs(temp_ang) < 3.13`
NearPiAngle == 31300
\* `0.1 < abs(temp_ang)`
TempAngMin == 1000

\* The axis both functions turn about when the two vectors are opposite:
\* one orthogonal to v1, got from nx, or from ny when v1 lies along nx.
OppositeAxis(v1) ==
    LET nx == Vec(AxisX)
        ny == Vec(AxisY)
        temp_ang == Angle(v1, nx)
    IN  IF TempAngMin < Abs(temp_ang) /\ Abs(temp_ang) < NearPiAngle
        THEN Cross(v1, nx)
        ELSE Cross(v1, ny)

rot_matrix_from_vecs(v1, v2) ==
    LET vcross == Cross(v1, v2)
        vdot == Dot(v1, v2)
        rot_angle == Angle(v1, v2)
    IN  IF FP - vdot < ParallelTol THEN Identity3
        ELSE IF FP + vdot < ParallelTol
             THEN Rotation(rot_angle, OppositeAxis(v1))
        ELSE LET skew_v == skew_mat(vcross)
                 n == Length(vcross)
             IN  MatAdd(MatAdd(Identity3, skew_v),
                        MatScale(MatMul(skew_v, skew_v),
                                 DivFP(FP - vdot, MulFP(n, n))))

get_rot_mat_from_vecs(vecA, vecB) ==
    LET angle == Angle(vecA, vecB)
        axis == IF Abs(angle) <= SmallAngle THEN Vec(AxisY)
                ELSE IF Abs(angle) >= NearPiAngle THEN OppositeAxis(vecA)
                ELSE Cross(vecA, vecB)
    IN  [mat |-> Transform(Rotation(angle, axis), Vec(Origin)),
         angle |-> angle]

-----------------------------------------------------------------------------
(***************************************************************************)
(* Joint export: generate_joint_data_from_blender_constraint,              *)
(* generate_joint_data_from_ambf_constraint and what they call.            *)
(***************************************************************************)

\* CommonConfig.detached_joint_prefix
detached_joint_prefix ==
    {"redundant", "Redundant", "REDUNDANT", "detached", "Detached", "DETACHED"}

\* An object name is the sequence of its words; str.rfind(word) is the
\* 0-based position of the last occurrence of the word, -1 when there is none.
RFind(name, word) ==
    LET at == {i \in 1..Len(name) : name[i] = word} IN
    IF at = {} THEN -1 ELSE (CHOOSE i \in at : \A k \in at : k <= i) - 1

\* `obj_handle_name.rfind(_detached_prefix_search_str) == 0` for some prefix
has_detached_prefix(name) ==
    \E w \in detached_joint_prefix : RFind(name, w) = 0

\* A dict without a key, and with a key set.
Without(d, k) == [x \in DOMAIN d \ {k} |-> d[x]]
With(d, k, v) == (k :> v) @@ d

\* JointTemplate()._ambf_data; 'joint limits' starts as {low: -1.2, high: 1.2}.
TemplateLow == -12000
TemplateHigh == 12000

JointTemplate ==
    [name |-> <<>>, parent |-> <<>>, child |-> <<>>]
    @@ ("parent axis" :> Vec(Origin)) @@ ("parent pivot" :> Vec(Origin))
    @@ ("child axis" :> Vec(Origin)) @@ ("child pivot" :> Vec(Origin))
    @@ ("joint limits" :> [low |-> TemplateLow, high |-> TemplateHigh])
    @@ ("enable feedback" :> FALSE) @@ [passive |-> FALSE]
    @@ [controller |-> [P |-> 1000, I |-> 0, D |-> 1]]
    @@ ("body rotation" :> MatScale(Identity3, 0))

get_default_axis_of_blender_constraint(constraint) ==
    IF constraint.type \in {"HINGE", "POINT", "FIXED"} THEN Vec(AxisZ)
    ELSE IF constraint.type = "SLIDER" THEN Vec(AxisX)
    ELSE IF "lin_x" \in constraint.use_limit \/ "ang_x" \in constraint.use_limit
         THEN Vec(AxisX)
    ELSE IF "lin_y" \in constraint.use_limit \/ "ang_y" \in constraint.use_limit
         THEN Vec(AxisY)
    ELSE Vec(AxisZ)

get_axis_of_ambf_constraint(joint_obj_handle) ==
    CASE joint_obj_handle.ambf_constraint_axis = "X" -> Vec(AxisX)
      [] joint_obj_handle.ambf_constraint_axis = "Y" -> Vec(AxisY)
      [] joint_obj_handle.ambf_constraint_axis = "Z" -> Vec(AxisZ)

\* matrix.to_euler().to_matrix(): the rotation a matrix carries, its columns
\* brought to unit length.
RotationPart(m) ==
    Transpose3(<<Normalized(Col(m, 1)), Normalized(Col(m, 2)),
                 Normalized(Col(m, 3))>>)

compute_body_pivot_and_axis_world(parent, child, constraint_axis) ==
    [pivot |-> child.t, axis |-> MatVec(RotationPart(child.R), constraint_axis)]

\* `pivot = t_c_p.translation` and the axis taken by t_c_p
PivotAndAxis(t_c_p, constraint_axis) ==
    [pivot |-> t_c_p.t, axis |-> MatVec(t_c_p.R, constraint_axis)]

compute_body_pivot_and_axis(parent, child, constraint_axis) ==
    LET t_p_w == Transform(RotationPart(parent.R), parent.t)
        t_c_w == Transform(RotationPart(child.R), child.t)
        t_w_p == Inverse4(t_p_w)
    IN  PivotAndAxis(Compose(t_w_p, t_c_w), constraint_axis)


\* joint_data['type'] as the if/elif chain of
\* assign_joint_params_from_blender_constraint sets it; NoField when no
\* branch assigns the key.
BlenderJointType(constraint) ==
    LET lin == constraint.use_limit \cap {"lin_x", "lin_y", "lin_z"}
        ang == constraint.use_limit \cap {"ang_x", "ang_y", "ang_z"}
    IN  CASE constraint.type = "HINGE" ->
                 IF "ang_z" \in constraint.use_limit THEN "revolute"
                 ELSE "continuous"
          [] constraint.type = "SLIDER" -> "prismatic"
          [] constraint.type = "GENERIC" ->
                 IF lin # {} THEN "prismatic"
                 ELSE IF ang # {} THEN "revolute" ELSE NoField
          [] constraint.type = "GENERIC_SPRING" ->
                 IF lin # {} THEN "linear spring"
                 ELSE IF ang # {} THEN "torsion spring" ELSE NoField
          [] constraint.type = "POINT" -> "p2p"
          [] constraint.type = "FIXED" -> "fixed"

\* The mutation of the record's limits that ends
\* assign_joint_params_from_blender_constraint.
BlenderLimits(constraint, joint_data) ==
    IF joint_data.type \in {"fixed", "p2p"}
    THEN Without(joint_data, "joint limits")
    ELSE IF joint_data.type = "continuous"
    THEN With(joint_data, "joint limits", <<>>)
    ELSE With(joint_data, "joint limits",
              [low |-> constraint.limit_lower, high |-> constraint.limit_upper])

\* outcome "KeyError": `joint_data['type']` raised, the export is aborted.
assign_joint_params_from_blender_constraint(constraint, joint_data) ==
    LET t == BlenderJointType(constraint)
        typed == With(joint_data, "type", t)
        sprung == IF constraint.type = "GENERIC_SPRING" /\ constraint.use_spring
                  THEN With(With(typed, "damping", constraint.spring_damping),
                            "stiffness", constraint.spring_stiffness)
                  ELSE typed
    IN  IF t = NoField THEN [outcome |-> "KeyError"]
        ELSE [outcome |-> "record", data |-> BlenderLimits(constraint, sprung)]

\* math.radians of an angle in degrees.
Radians(deg) == MulFP(deg \div 180, Pi)

assign_joint_params_from_ambf_constraint(joint_obj_handle, joint_data) ==
    LET j == joint_obj_handle
        t == CASE j.ambf_constraint_type = "REVOLUTE" -> "revolute"
               [] j.ambf_constraint_type = "PRISMATIC" -> "prismatic"
               [] j.ambf_constraint_type = "LINEAR_SPRING" -> "linear spring"
               [] j.ambf_constraint_type = "TORSION_SPRING" -> "angular spring"
               [] j.ambf_constraint_type = "FIXED" -> "fixed"
               [] j.ambf_constraint_type = "P2P" -> "p2p"
        d1 == With(joint_data, "type", t)
        d2 == IF j.ambf_constraint_type \in {"REVOLUTE", "TORSION_SPRING"}
              THEN With(IF j.ambf_constraint_limits_enable
                        THEN With(d1, "joint limits",
                                  [low |-> Radians(j.ambf_constraint_limits_lower),
                                   high |-> Radians(j.ambf_constraint_limits_higher)])
                        ELSE Without(d1, "joint limits"),
                        "max motor impulse", j.ambf_constraint_max_motor_impulse)
              ELSE d1
        d3 == IF j.ambf_constraint_type \in {"PRISMATIC", "LINEAR_SPRING"}
              THEN With(IF j.ambf_constraint_limits_enable
                        THEN With(d2, "joint limits",
                                  [low |-> j.ambf_constraint_limits_lower,
                                   high |-> j.ambf_constraint_limits_higher])
                        ELSE Without(d2, "joint limits"),
                        "max motor impulse", j.ambf_constraint_max_motor_impulse)
              ELSE d2
        d4 == IF j.ambf_constraint_type \in {"LINEAR_SPRING", "TORSION_SPRING"}
              THEN With(d3, "stiffness", j.ambf_constraint_stiffness)
              ELSE Without(d3, "stiffness")
        d5 == With(d4, "damping", j.ambf_constraint_damping)
        d6 == IF j.ambf_constraint_enable_controller_gains
              THEN With(d5, "controller", j.ambf_constraint_controller_gains)
              ELSE Without(d5, "controller")
    IN  With(With(d6, "enable feedback", j.ambf_constraint_enable_feedback),
             "passive", j.ambf_constraint_passive)

\* `if abs(offset_axis_angle[1]) > 0.01`
OffsetMinAngle == 100
\* `abs(1.0 - child_axis.dot(offset_axis_angle[0])) < 0.1`
AxisDotTol == 1000

\* child-in-parent rotation of the scene: r_w_p @ r_c_w
r_c_p_blender(parent, child) == MatMul(Inverse3(parent.R), child.R)

\* An offset that is the angle itself for either direction of the axis.
WithOffsetUnsigned(joint_data, offset_angle, along) ==
    IF Abs(offset_angle) > OffsetMinAngle
          /\ (Abs(FP - along) < AxisDotTol \/ Abs(FP + along) < AxisDotTol)
    THEN With(joint_data, "offset", offset_angle)
    ELSE joint_data

\* The `offset` both exports compute after the pivots and axes; the record
\* is left without the key when the angle is small or the offset axis is
\* along neither direction of the child axis.
WithOffset(joint_data, offset_angle, along) ==
    IF Abs(offset_angle) > OffsetMinAngle
    THEN IF Abs(FP - along) < AxisDotTol
         THEN With(joint_data, "offset", offset_angle)
         ELSE IF Abs(FP + along) < AxisDotTol
         THEN With(joint_data, "offset", -offset_angle)
         ELSE joint_data
    ELSE joint_data

OffsetAbout(joint_data, child_axis, offset_axis_angle) ==
    WithOffset(joint_data, offset_axis_angle.angle,
               Dot(child_axis, offset_axis_angle.axis))

\* offset_axis_angle: axis and angle of r_p_c_ambf @ r_c_p_blender
OffsetAxisAngle(child_axis, parent_axis, parent, child) ==
    LET r_c_p_ambf == rot_matrix_from_vecs(child_axis, parent_axis)
        r_p_c_ambf == Inverse3(r_c_p_ambf)
        r_angular_offset == MatMul(r_p_c_ambf, r_c_p_blender(parent, child))
    IN  ToAxisAngle(r_angular_offset)

JointOffset(joint_data, child_axis, parent_axis, parent, child) ==
    OffsetAbout(joint_data, child_axis,
                OffsetAxisAngle(child_axis, parent_axis, parent, child))

\* The else branch of the check, `print('ERROR: ...SHOULD'NT GET HERE')`, is
\* reached: the angle is beyond 0.01 and the offset axis is along neither
\* direction of the child axis.
OffsetCheckFails(offset_angle, along) ==
    /\ Abs(offset_angle) > OffsetMinAngle
    /\ ~(Abs(FP - along) < AxisDotTol)
    /\ ~(Abs(FP + along) < AxisDotTol)

\* The pivots and axes written into the record.
WithPivotsAndAxes(joint_data, parent_pivot, parent_axis, child_pivot, child_axis) ==
    With(With(With(With(joint_data,
        "parent pivot", parent_pivot), "parent axis", parent_axis),
        "child pivot", child_pivot), "child axis", child_axis)

\* matrix_world of the object that holds the constraint.
HolderPose(s) == IF s.holder.is_child THEN s.child ELSE s.joint

\* `_is_detached_joint` of generate_joint_data_from_blender_constraint
IsDetachedHolder(joint_obj_handle) ==
    joint_obj_handle.type = "EMPTY" /\ has_detached_prefix(joint_obj_handle.name)

\* joint_data['name'], ['parent'] and ['child'] of a fresh template
Named(s, name) ==
    With(With(With(JointTemplate, "name", name),
        "parent", <<"BODY", s.parent_name>>), "child", <<"BODY", s.child_name>>)

\* The controller gains that end the Blender-constraint export.
BlenderGains(s, joint_data) ==
    IF s.constraint.type \in {"HINGE", "SLIDER", "GENERIC"}
    THEN IF s.holder.ambf_enable_joint_props
         THEN With(With(joint_data, "controller", s.holder.gains),
                   "damping", s.holder.ambf_joint_damping)
         ELSE Without(joint_data, "controller")
    ELSE joint_data

\* The export from the parameters on: p and c are the pivot and axis of the
\* parent and of the child.
BlenderRecord(s, p, c, params) ==
    IF params.outcome = "KeyError" THEN params
    ELSE [outcome |-> "record",
          data |-> BlenderGains(s,
              JointOffset(params.data, c.axis, p.axis, s.parent, s.child))]

\* The export from the pivots and axes on.
BlenderPlaced(s, p, c) ==
    BlenderRecord(s, p, c,
        assign_joint_params_from_blender_constraint(s.constraint,
            WithPivotsAndAxes(
                IF IsDetachedHolder(s.holder)
                THEN With(Named(s, <<s.parent_name, "-", s.child_name>>),
                          "detached", TRUE)
                ELSE Named(s, <<s.parent_name, "-", s.child_name>>),
                p.pivot, p.axis, c.pivot, c.axis)))

generate_joint_data_from_blender_constraint(s) ==
    LET constraint_axis == get_default_axis_of_blender_constraint(s.constraint)
    IN  IF IsDetachedHolder(s.holder)
        THEN BlenderPlaced(s,
                 compute_body_pivot_and_axis(s.parent, HolderPose(s), constraint_axis),
                 compute_body_pivot_and_axis(s.child, HolderPose(s), constraint_axis))
        ELSE BlenderPlaced(s,
                 compute_body_pivot_and_axis(s.parent, s.child, constraint_axis),
                 [pivot |-> Vec(Origin),
                  axis |-> get_default_axis_of_blender_constraint(s.constraint)])

\* The export from the pivots and axes on.
AmbfPlaced(s, p, c) ==
    LET j == s.constraint
        name == IF j.ambf_constraint_name = <<>>
                THEN <<s.parent_name, "-", s.child_name>>
                ELSE j.ambf_constraint_name
        flagged == With(Named(s, name), "detached", TRUE)
        placed == WithPivotsAndAxes(flagged, p.pivot, p.axis, c.pivot, c.axis)
        params == assign_joint_params_from_ambf_constraint(j, placed)
        offset == JointOffset(params, c.axis, p.axis, s.parent, s.child)
    IN  [outcome |-> "record",
         data |-> With(offset, "body rotation", r_c_p_blender(s.parent, s.child))]

generate_joint_data_from_ambf_constraint(s) ==
    LET constraint_axis == get_axis_of_ambf_constraint(s.constraint)
    IN  AmbfPlaced(s,
            compute_body_pivot_and_axis(s.parent, s.joint, constraint_axis),
            compute_body_pivot_and_axis(s.child, s.joint, constraint_axis))


-----------------------------------------------------------------------------
(***************************************************************************)
(* Pose composition of the loader: get_joint_offset_angle,                 *)
(* get_child_in_world_transform, get_joint_in_world_transform.             *)
(***************************************************************************)

\* A lookup of the stored offset that takes no notice of the option.
get_joint_offset_angle_stored(joint_data, ignore_ambf_joint_offsets) ==
    IF "offset" \in DOMAIN joint_data THEN joint_data.offset ELSE 0

get_joint_offset_angle(joint_data, ignore_ambf_joint_offsets) ==
    IF ~ignore_ambf_joint_offsets /\ "offset" \in DOMAIN joint_data
    THEN joint_data.offset
    ELSE 0

get_parent_pivot_and_axis_data(joint_data) ==
    [pivot |-> IF "parent pivot" \in DOMAIN joint_data
               THEN joint_data["parent pivot"] ELSE Vec(Origin),
     axis |-> IF "parent axis" \in DOMAIN joint_data
              THEN joint_data["parent axis"] ELSE Vec(AxisZ)]

get_child_pivot_and_axis_data(joint_data) ==
    [pivot |-> IF "child pivot" \in DOMAIN joint_data
               THEN joint_data["child pivot"] ELSE Vec(Origin),
     axis |-> IF "child axis" \in DOMAIN joint_data
              THEN joint_data["child axis"] ELSE Vec(AxisZ)]

\* mathutils.Matrix().Rotation(angle, 4, axis)
Rotation4(angle, axis) == Transform(Rotation(angle, axis), Vec(Origin))

\* T_p_w is parent_obj_handle.matrix_world, T_p_w_off is
\* self._body_T_j_c[joint_data['parent']].
get_child_in_world_transform(joint_data, T_p_w, T_p_w_off, ignore) ==
    LET parent == get_parent_pivot_and_axis_data(joint_data)
        child == get_child_pivot_and_axis_data(joint_data)
        P_j_p == Translation(parent.pivot)
        R_c_p == get_rot_mat_from_vecs(child.axis, parent.axis).mat
        P_j_c == Translation(child.pivot)
        P_c_j == Inverse4(P_j_c)
        T_c_offset_rot ==
            Rotation4(get_joint_offset_angle(joint_data, ignore), parent.axis)
    IN  Compose(Compose(Compose(Compose(Compose(
            T_p_w, T_p_w_off), P_j_p), T_c_offset_rot), R_c_p), P_c_j)

get_joint_in_world_transform(joint_data, T_p_w, T_p_w_off, ignore) ==
    LET parent == get_parent_pivot_and_axis_data(joint_data)
        standard == get_standard_pivot_and_axis_data(joint_data.type)
        P_j_p == Translation(parent.pivot)
        R_j_p == get_rot_mat_from_vecs(Vec(standard.axis), parent.axis).mat
        T_c_offset_rot ==
            Rotation4(get_joint_offset_angle(joint_data, ignore), parent.axis)
    IN  Compose(Compose(Compose(Compose(
            T_p_w, T_p_w_off), P_j_p), T_c_offset_rot), R_j_p)

\* self._body_T_j_c[body_name] as load_body leaves it: mathutils.Matrix()
body_T_j_c == Identity4

-----------------------------------------------------------------------------
(***************************************************************************)
(* SpecExport: one joint of a scene is exported, and the child pose is     *)
(* composed again from the record.  The objects of the scenes are visible  *)
(* and unscaled.                                                           *)
(***************************************************************************)

\* Largest coordinate of the child positions of the scenes.
MaxCoord == 1

Rz90 == Rotation(HalfPi, Vec(AxisZ))
Rx180 == Rotation(Pi, Vec(AxisX))
RyNeg90 == Rotation(-HalfPi, Vec(AxisY))
\* A turn of acos(12/13) about x, and the same after a quarter turn about z.
Tilt == <<<<FP, 0, 0>>, <<0, 9231, -3846>>, <<0, 3846, 9231>>>>
TiltTwist == MatMul(Tilt, Rz90)

ParentPoses == {Identity4, Transform(Rz90, Vec(<<1, 2, 0>>))}
ChildRotations == {Identity3, Rz90, Rx180, RyNeg90, TiltTwist, Tilt}
AxisAligned == {Identity3, Rz90, Rx180, RyNeg90}
ChildPositions == {Vec(<<x, x - 1, 0>>) : x \in 0..MaxCoord}
ChildPoses == {Transform(r, t) : r \in ChildRotations, t \in ChildPositions}
\* Where the empty that holds a constraint sits.
JointPose == Transform(Rz90, Vec(<<0, 1, 0>>))

\* The objects a Blender rigid body constraint can sit on.
ChildHolder ==
    [type |-> "MESH", name |-> <<"link">>, is_child |-> TRUE,
     ambf_enable_joint_props |-> TRUE, gains |-> [P |-> 10, I |-> 0, D |-> 1],
     ambf_joint_damping |-> 0]
DetachedEmpty ==
    [type |-> "EMPTY", name |-> <<"detached", "joint">>, is_child |-> FALSE,
     ambf_enable_joint_props |-> FALSE, gains |-> [P |-> 10, I |-> 0, D |-> 1],
     ambf_joint_damping |-> 0]
PlainEmpty ==
    [type |-> "EMPTY", name |-> <<"joint", "detached">>, is_child |-> FALSE,
     ambf_enable_joint_props |-> FALSE, gains |-> [P |-> 10, I |-> 0, D |-> 1],
     ambf_joint_damping |-> 0]
Holders == {ChildHolder, DetachedEmpty, PlainEmpty}

\* rigid_body_constraint of the holder: its type and the limits in use.
BlenderConstraint(type, use_limit) ==
    [type |-> type, use_limit |-> use_limit,
     limit_lower |-> -5000, limit_upper |-> 7854,
     use_spring |-> type = "GENERIC_SPRING",
     spring_damping |-> 1000, spring_stiffness |-> 20000]

BlenderConstraints ==
    {BlenderConstraint(t, {}) : t \in {"FIXED", "POINT", "SLIDER", "HINGE"}}
    \cup {BlenderConstraint("HINGE", {"ang_z"})}
    \cup {BlenderConstraint("GENERIC", u) : u \in {{}, {"lin_y"}, {"ang_x"}, {"ang_z"}}}
    \cup {BlenderConstraint("GENERIC_SPRING", u) : u \in {{"lin_x"}, {"ang_z"}}}

\* An object of ambf_object_type 'CONSTRAINT'; the limits of a REVOLUTE or
\* TORSION_SPRING are in degrees.
AmbfConstraint(type, axis, limits_enable) ==
    [ambf_constraint_type |-> type, ambf_constraint_axis |-> axis,
     ambf_constraint_limits_enable |-> limits_enable,
     ambf_constraint_limits_lower |-> -450000,
     ambf_constraint_limits_higher |-> 900000,
     ambf_constraint_max_motor_impulse |-> 500,
     ambf_constraint_stiffness |-> 20000, ambf_constraint_damping |-> 1000,
     ambf_constraint_enable_controller_gains |-> FALSE,
     ambf_constraint_controller_gains |-> [P |-> 10, I |-> 0, D |-> 1],
     ambf_constraint_enable_feedback |-> FALSE,
     ambf_constraint_passive |-> FALSE, ambf_constraint_name |-> <<>>]

AmbfConstraints ==
    {AmbfConstraint(t, a, l) :
        t \in {"REVOLUTE", "PRISMATIC", "LINEAR_SPRING", "TORSION_SPRING",
               "FIXED", "P2P"},
        a \in {"X", "Z"}, l \in BOOLEAN}

\* `adjacent`: child_obj_handle.parent is parent_obj_handle.
Scenes ==
    [enable_legacy_loading : {TRUE}, parent : ParentPoses, child : ChildPoses,
     joint : {JointPose}, holder : Holders, constraint : BlenderConstraints,
     adjacent : BOOLEAN, parent_name : {"A"}, child_name : {"B"}]
    \cup
    [enable_legacy_loading : {FALSE}, parent : ParentPoses, child : ChildPoses,
     joint : {JointPose}, holder : {PlainEmpty}, constraint : AmbfConstraints,
     adjacent : BOOLEAN, parent_name : {"A"}, child_name : {"B"}]

InitExport ==
    /\ scene \in Scenes
    /\ jdata = Unset
    /\ ignoreOffsets = FALSE
    /\ Tcw = Unset
    /\ offsetAngle = Unset
    /\ epc = "scene"
    /\ TreeIdle
    /\ KindIdle
    /\ LoadIdle
    /\ PassIdle
    /\ RotIdle
    /\ RestIdle

\* generate_ambf_yaml, legacy branch of the joint loop, for the joint
ExportBlender ==
    /\ epc = "scene"
    /\ scene.enable_legacy_loading
    /\ jdata' = generate_joint_data_from_blender_constraint(scene)
    /\ epc' = "exported"
    /\ UNCHANGED <<scene, ignoreOffsets, Tcw, offsetAngle>>
    /\ UNCHANGED notExport

\* generate_ambf_yaml, the other branch
ExportAmbf ==
    /\ epc = "scene"
    /\ ~scene.enable_legacy_loading
    /\ jdata' = generate_joint_data_from_ambf_constraint(scene)
    /\ epc' = "exported"
    /\ UNCHANGED <<scene, ignoreOffsets, Tcw, offsetAngle>>
    /\ UNCHANGED notExport

\* The loader composes the child pose from the record, the parent body
\* being where the scene had it.
ComposeChild ==
    /\ epc = "exported"
    /\ jdata.outcome = "record"
    /\ \E ignore \in BOOLEAN :
        /\ ignoreOffsets' = ignore
        /\ offsetAngle' = get_joint_offset_angle(jdata.data, ignore)
        /\ Tcw' = get_child_in_world_transform(jdata.data, scene.parent,
                                               body_T_j_c, ignore)
    /\ epc' = "composed"
    /\ UNCHANGED <<scene, jdata>>
    /\ UNCHANGED notExport

NextExport ==
    \/ ExportBlender
    \/ ExportAmbf
    \/ ComposeChild

SpecExport == InitExport /\ [][NextExport]_vars


\* Two vectors, two rotations, within a tolerance in every entry.
CloseVec(a, b, tol) == \A i \in 1..3 : Abs(a[i] - b[i]) <= tol
CloseRot(a, b, tol) == \A i \in 1..3 : CloseVec(a[i], b[i], tol)

\* 1e-4 on a translation, 1e-3 on a rotation.
TranslationTol == FP \div 10000
RotationTol == FP \div 1000

Exported == epc \in {"exported", "composed"} /\ jdata.outcome = "record"
Flagged == "detached" \in DOMAIN jdata.data

\* C2 (as claimed): for a joint exported without the detached flag, of any
\* kind and any pose of parent and child, the child pose composed from the
\* exported parent pivot, parent axis, child pivot, child axis and offset is
\* the child's original world pose, within 1e-4 in translation and 1e-3 in
\* rotation.
C2_RoundTrip ==
    (epc = "composed" /\ ~Flagged /\ ~ignoreOffsets) =>
        /\ CloseVec(Tcw.t, scene.child.t, TranslationTol)
        /\ CloseRot(Tcw.R, scene.child.R, RotationTol)

\* The round trip over the axis-aligned child rotations alone.
RoundTripAxisAligned ==
    scene.child.R \in AxisAligned => C2_RoundTrip

\* C8 (as claimed): a record exported with type fixed, p2p or continuous
\* carries no low or high joint limit, whichever export wrote it.
C8_NoLimitsWithoutRange ==
    (Exported /\ jdata.data.type \in {"fixed", "p2p", "continuous"}) =>
        \/ "joint limits" \notin DOMAIN jdata.data
        \/ DOMAIN jdata.data["joint limits"] \cap {"low", "high"} = {}

\* The Blender-constraint export alone keeps fixed, p2p and continuous
\* records free of limits.
NoLimitsWithoutRangeBlender ==
    scene.enable_legacy_loading => C8_NoLimitsWithoutRange

\* C9: a joint exported without the detached flag has child pivot (0,0,0)
\* and child axis the constraint's nominal axis; its parent pivot is the
\* child's origin seen from the parent frame and its parent axis the nominal
\* axis of the child seen from the parent frame.  For a parent at the
\* identity, a child moved by (1,0,0) and a limited hinge the record is
\* parent pivot (1,0,0), parent axis (0,0,1), child pivot (0,0,0), child axis
\* (0,0,1), revolute, offset 0.
C9_NonDetachedExtraction ==
    (Exported /\ ~Flagged) =>
        LET d == jdata.data
            nominal == get_default_axis_of_blender_constraint(scene.constraint)
            p == scene.parent
        IN  /\ d["child pivot"] = Vec(Origin)
            /\ d["child axis"] = nominal
            /\ CloseVec(VecAdd(MatVec(p.R, d["parent pivot"]), p.t),
                        scene.child.t, TranslationTol)
            /\ CloseVec(MatVec(p.R, d["parent axis"]),
                        MatVec(scene.child.R, nominal), TranslationTol)
            /\ (/\ p = Identity4
                /\ scene.child = Translation(Vec(<<1, 0, 0>>))
                /\ scene.constraint = BlenderConstraint("HINGE", {"ang_z"}))
               => /\ d["parent pivot"] = Vec(<<1, 0, 0>>)
                  /\ d["parent axis"] = Vec(AxisZ)
                  /\ d.type = "revolute"
                  /\ get_joint_offset_angle(d, FALSE) = 0

\* The limited hinge between a parent at the identity and a child moved by
\* (1,0,0) has been exported, from a parent that is not at the origin too.
C9_Witness ==
    /\ Exported /\ ~Flagged
    /\ scene.parent = Identity4
    /\ scene.child = Translation(Vec(<<1, 0, 0>>))
    /\ scene.constraint = BlenderConstraint("HINGE", {"ang_z"})
    /\ jdata.data["parent pivot"] = Vec(<<1, 0, 0>>)

\* C10 (as claimed): a record carries `detached: true` exactly when parent
\* and child are not adjacent in the object hierarchy, and the pivots and
\* axes of a flagged record are those seen from the joint object.
C10_DetachedIffNotAdjacent ==
    Exported =>
        /\ Flagged <=> ~scene.adjacent
        /\ Flagged =>
             LET axis == IF scene.enable_legacy_loading
                         THEN get_default_axis_of_blender_constraint(scene.constraint)
                         ELSE get_axis_of_ambf_constraint(scene.constraint)
                 p == compute_body_pivot_and_axis(scene.parent, scene.joint, axis)
                 c == compute_body_pivot_and_axis(scene.child, scene.joint, axis)
             IN  /\ jdata.data["parent pivot"] = p.pivot
                 /\ jdata.data["parent axis"] = p.axis
                 /\ jdata.data["child pivot"] = c.pivot
                 /\ jdata.data["child axis"] = c.axis

\* What the two exports do flag: the Blender-constraint export flags the
\* joints held by an EMPTY whose name starts with a detached prefix, the
\* AMBF-constraint export flags every joint.
DetachedFlagAsWritten ==
    Exported =>
        (Flagged <=> (~scene.enable_legacy_loading \/ IsDetachedHolder(scene.holder)))


\* The axis and angle the export of the scene computed for the offset, and
\* whether its check of them failed.
ExportedOffsetAxisAngle ==
    OffsetAxisAngle(jdata.data["child axis"], jdata.data["parent axis"],
                    scene.parent, scene.child)

OffsetCheckFailed(child_axis, offset_axis_angle) ==
    OffsetCheckFails(offset_axis_angle.angle,
                     Dot(child_axis, offset_axis_angle.axis))

KeepsOffset(joint_data, offset_axis_angle) ==
    /\ "offset" \in DOMAIN joint_data
    /\ Abs(joint_data.offset) = Abs(offset_axis_angle.angle)

\* C13: when the consistency check of the extraction fails (offset angle
\* above 0.01 rad, offset axis neither parallel nor antiparallel to the
\* child axis) the joint record is still emitted, and it carries the
\* offset that was computed.
C13_FailedCheckKeepsOffset ==
    (Exported /\ OffsetCheckFailed(jdata.data["child axis"], ExportedOffsetAxisAngle))
        => KeepsOffset(jdata.data, ExportedOffsetAxisAngle)

\* What the two exports do when the check fails: the record is emitted
\* without an `offset`, so that the loader takes 0; a record that has an
\* `offset` passed the check.
FailedCheckDropsOffset ==
    epc \in {"exported", "composed"} =>
        /\ jdata.outcome = "record" \/ scene.enable_legacy_loading
        /\ Exported =>
             (OffsetCheckFailed(jdata.data["child axis"], ExportedOffsetAxisAngle)
                  => "offset" \notin DOMAIN jdata.data)

\* An export whose check failed: the child tilted by acos(12/13) about x
\* against the parent, the hinge axis z.
FailedCheckReached ==
    /\ Exported
    /\ scene.child.R = Tilt
    /\ OffsetCheckFailed(jdata.data["child axis"], ExportedOffsetAxisAngle)

Composed == epc = "composed" /\ jdata.outcome = "record"

\* C20: the offset angle of the composition is 0 when the option to ignore
\* the offsets is set, whatever offset the record stores; without the
\* option it is the stored offset, or 0 for a record with no offset.
C20_OffsetAngleHonoursOption ==
    Composed =>
        offsetAngle = IF ignoreOffsets THEN 0
                      ELSE IF "offset" \in DOMAIN jdata.data
                           THEN jdata.data.offset
                           ELSE 0

\* A record with an offset that is not 0 composed with the option set.
C20_Witness ==
    /\ Composed
    /\ ignoreOffsets
    /\ "offset" \in DOMAIN jdata.data
    /\ jdata.data.offset # 0
    /\ offsetAngle = 0

\* The stored offset is what the composition uses without the option.
StoredOffsetUsed ==
    /\ Composed
    /\ ~ignoreOffsets
    /\ "offset" \in DOMAIN jdata.data
    /\ jdata.data.offset # 0
    /\ offsetAngle = jdata.data.offset

\* The sign rule of the offset for a residual rotation of the given angle
\* whose axis has the dot product `along` with the child axis.
OffsetSigned(joint_data, offset_angle, along) ==
    IF Abs(offset_angle) > OffsetMinAngle
    THEN /\ Abs(FP - along) < AxisDotTol =>
                ("offset" \in DOMAIN joint_data /\ joint_data.offset = offset_angle)
         /\ (~(Abs(FP - along) < AxisDotTol) /\ Abs(FP + along) < AxisDotTol) =>
                ("offset" \in DOMAIN joint_data /\ joint_data.offset = -offset_angle)
    ELSE "offset" \notin DOMAIN joint_data

OffsetSignedBy(joint_data, child_axis, offset_axis_angle) ==
    OffsetSigned(joint_data, offset_axis_angle.angle,
                 Dot(child_axis, offset_axis_angle.axis))

\* C23: when the residual rotation has an angle above 0.01 rad the offset
\* of the record is +angle for a residual axis parallel to the child axis
\* and -angle for an antiparallel one; at 0.01 rad or below the record has
\* no offset.
C23_OffsetSignFollowsAxis ==
    Exported =>
        OffsetSignedBy(jdata.data, jdata.data["child axis"], ExportedOffsetAxisAngle)

\* A record whose residual axis is against the child axis.
C23_Witness ==
    /\ Exported
    /\ "offset" \in DOMAIN jdata.data
    /\ jdata.data.offset < -OffsetMinAngle

\* The record came from generate_joint_data_from_ambf_constraint.
ExportedFromAmbf == Exported /\ ~scene.enable_legacy_loading

\* C27: the constraint type survives an export followed by a load:
\* get_ambf_joint_type of the `type` written by
\* assign_joint_params_from_ambf_constraint is the type of the constraint.
C27_KindSurvivesExportAndLoad ==
    ExportedFromAmbf =>
        get_ambf_joint_type(jdata.data.type) = scene.constraint.ambf_constraint_type

\* A TORSION_SPRING exported as 'angular spring'.
C27_Witness ==
    /\ ExportedFromAmbf
    /\ scene.constraint.ambf_constraint_type = "TORSION_SPRING"
    /\ jdata.data.type = "angular spring"

\* Every type of the enum of ambf_constraint_type is exported.
AllTypesExported ==
    \A t \in {"REVOLUTE", "PRISMATIC", "LINEAR_SPRING", "TORSION_SPRING",
              "FIXED", "P2P"} :
        \E c \in AmbfConstraints : c.ambf_constraint_type = t

-----------------------------------------------------------------------------
(***************************************************************************)
(* SpecLoad: the joint loop of AMBF_OT_load_ambf_file.execute, with        *)
(* load_blender_joint and load_ambf_joint.  The bodies are the objects     *)
(* 1..LoadBodies; the empty made for the joint at position i of the        *)
(* `joints` list is the object LoadBodies + i.                             *)
(***************************************************************************)

\* Bodies of the loaded document, and the longest `joints` list.
LoadBodies == 3
MaxJoints == 2

Bodies == 1..LoadBodies

\* The joint records of the documents: parent and child are bodies of the
\* document, the pivot in the parent is (1,0,0), the axes are left to
\* their defaults; a record may carry `detached: true`.
JointRecords ==
    {[parent |-> p, child |-> c, type |-> "revolute"]
        @@ ("parent pivot" :> Vec(<<1, 0, 0>>)) @@ flag :
        p \in Bodies, c \in Bodies, flag \in {<<>>, [detached |-> TRUE]}}

\* The documents: the parent of a joint is a body listed before its child,
\* so the joints close no loop.
Documents ==
    UNION {[1..n -> {j \in JointRecords : j.parent < j.child}] : n \in 1..MaxJoints}

is_detached_joint(joint_data) ==
    \/ "redundant" \in DOMAIN joint_data /\ joint_data.redundant = TRUE
    \/ "detached" \in DOMAIN joint_data /\ joint_data.detached = TRUE

\* Whether obj is d or stands above d in the parent links.
RECURSIVE IsAbove(_, _, _, _)
IsAbove(par, obj, d, n) ==
    IF d = obj THEN TRUE
    ELSE IF n = 0 \/ par[d] = None THEN FALSE
    ELSE IsAbove(par, obj, par[d], n - 1)

\* `obj.matrix_world = T`: the objects parented under obj move with it.
SetWorld(m, par, obj, T) ==
    LET delta == Compose(T, Inverse4(m[obj])) IN
    [d \in DOMAIN m |->
        IF d = obj THEN T
        ELSE IF IsAbove(par, obj, d, Cardinality(DOMAIN m))
        THEN Compose(delta, m[d])
        ELSE m[d]]

\* make_obj1_parent_of_obj2: nothing happens when obj2 has a parent.
make_obj1_parent_of_obj2(par, obj1, obj2) ==
    IF par[obj2] = None THEN [par EXCEPT ![obj2] = obj1] ELSE par

\* load_body has run for every body: each is at the origin, has no parent.
InitLoad ==
    /\ joints \in Documents
    /\ legacy \in BOOLEAN
    /\ mw = [b \in Bodies |-> Identity4]
    /\ oparent = [b \in Bodies |-> None]
    /\ jIdx = 0
    /\ log = <<>>
    /\ TreeIdle
    /\ KindIdle
    /\ ExportIdle
    /\ PassIdle
    /\ RotIdle
    /\ RestIdle

\* load_blender_joint for the next joint of the list
LoadBlenderJoint ==
    /\ legacy
    /\ jIdx < Len(joints)
    /\ LET joint_data == joints[jIdx + 1]
           parent_obj == joint_data.parent
           child_obj == joint_data.child
           empty == LoadBodies + jIdx + 1
           detached == is_detached_joint(joint_data)
           T_c_w == get_child_in_world_transform(joint_data, mw[parent_obj],
                                                 body_T_j_c, FALSE)
       IN  IF detached
           THEN /\ mw' = (empty :> T_c_w) @@ mw
                /\ oparent' = (empty :> parent_obj) @@ oparent
                /\ log' = log
           ELSE /\ mw' = SetWorld(mw, oparent, child_obj, T_c_w)
                /\ oparent' = make_obj1_parent_of_obj2(oparent, parent_obj, child_obj)
                /\ log' = Append(log, [joint |-> jIdx + 1, body |-> child_obj,
                                       T |-> T_c_w])
    /\ jIdx' = jIdx + 1
    /\ UNCHANGED <<joints, legacy>>
    /\ UNCHANGED notLoad

\* load_ambf_joint for the next joint of the list
LoadAmbfJoint ==
    /\ ~legacy
    /\ jIdx < Len(joints)
    /\ LET joint_data == joints[jIdx + 1]
           parent_obj == joint_data.parent
           child_obj == joint_data.child
           empty == LoadBodies + jIdx + 1
           T_j_w == get_joint_in_world_transform(joint_data, mw[parent_obj],
                                                 body_T_j_c, FALSE)
           T_c_w == get_child_in_world_transform(joint_data, mw[parent_obj],
                                                 body_T_j_c, FALSE)
           free == oparent[child_obj] = None
           placed == (empty :> T_j_w) @@ mw
           linked == (empty :> parent_obj) @@ oparent
       IN  /\ mw' = IF free THEN SetWorld(placed, linked, child_obj, T_c_w)
                    ELSE placed
           /\ oparent' = make_obj1_parent_of_obj2(linked, empty, child_obj)
           /\ log' = IF free
                     THEN Append(log, [joint |-> jIdx + 1, body |-> child_obj,
                                       T |-> T_c_w])
                     ELSE log
    /\ jIdx' = jIdx + 1
    /\ UNCHANGED <<joints, legacy>>
    /\ UNCHANGED notLoad

NextLoad ==
    \/ LoadBlenderJoint
    \/ LoadAmbfJoint

SpecLoad == InitLoad /\ [][NextLoad]_vars

\* The joint of the document that positions body b: the first one that is
\* not detached and names b as child (0 when b is a root of the document).
PositioningJoint(b) ==
    LET at == {i \in 1..Len(joints) :
                  joints[i].child = b /\ ~is_detached_joint(joints[i])}
    IN  IF at = {} THEN 0 ELSE CHOOSE i \in at : \A k \in at : i <= k

\* b and the bodies above it along the positioning joints.
RECURSIVE Upward(_, _)
Upward(b, n) ==
    IF n = 0 \/ PositioningJoint(b) = 0 THEN {b}
    ELSE {b} \cup Upward(joints[PositioningJoint(b)].parent, n - 1)

\* C3 (as claimed): no joint that is detached sets the world transform of
\* its child body, in either loading mode and whatever the order of the
\* joints list.
C3_DetachedNeverPositionsChild ==
    \A i \in 1..Len(log) : ~is_detached_joint(joints[log[i].joint])

\* C4 (as claimed): a body's world transform is set at most once in a pass,
\* by the first joint of the list that names it as child and is not detached.
C4_PositionedOnce ==
    \A i \in 1..Len(log) :
        /\ \A k \in 1..Len(log) : log[k].body = log[i].body => k = i
        /\ \A k \in 1..(log[i].joint - 1) :
               joints[k].child = log[i].body => is_detached_joint(joints[k])

\* C5 (as claimed): when a joint composes the world transform of its child,
\* the joints that position the parent body and the bodies above it have
\* been processed already, whatever the order of the joints list.
C5_AncestorsResolvedFirst ==
    \A i \in 1..Len(log) :
        \A a \in Upward(joints[log[i].joint].parent, LoadBodies) :
            PositioningJoint(a) # 0 => PositioningJoint(a) < log[i].joint


-----------------------------------------------------------------------------
(***************************************************************************)
(* SpecPass: AMBF_OT_load_ambf_file.execute once load_body has run for     *)
(* every body: adjust_body_pivots_and_axis, then the joint loop.  An       *)
(* exception that nothing catches leaves execute.  The meshes that         *)
(* adjust_body_pivots_and_axis transforms are not part of the state.       *)
(***************************************************************************)

\* Longest `joints` list of the documents of the pass.
MaxPassJoints == 2

\* A body name that no body of the document has.
AbsentBody == 0

\* A joint record with its geometry written out.
PassJoint(p, c, type, parent_axis, child_axis, child_pivot) ==
    [parent |-> p, child |-> c, type |-> type]
    @@ ("parent pivot" :> Vec(<<1, 0, 0>>)) @@ ("parent axis" :> Vec(parent_axis))
    @@ ("child pivot" :> Vec(child_pivot)) @@ ("child axis" :> Vec(child_axis))

\* The links of the documents: chains, and two joints into one child.
PassLinks == {<<1, 2>>, <<2, 3>>, <<1, 3>>}

\* The joints of the documents.  Canonical ones (child axis the nominal
\* axis of the type, child pivot at the origin) under the parent axes that
\* are along it, against it, square to it and oblique,
\* others whose child axis or pivot is off, a detached one, one that has
\* no child pivot and no child axis, one whose child axis has length
\* zero, and two that name a body the document does not have.
PassJoints ==
    UNION {
        { PassJoint(l[1], l[2], "revolute", AxisZ, AxisZ, Origin),
          PassJoint(l[1], l[2], "revolute", AxisX, AxisZ, Origin),
          PassJoint(l[1], l[2], "revolute", <<0, 0, -1>>, AxisZ, Origin),
          PassJoint(l[1], l[2], "revolute", AxisY, AxisZ, Origin),
          With(PassJoint(l[1], l[2], "revolute", AxisY, AxisZ, Origin),
               "parent axis", <<0, 6000, 8000>>),
          PassJoint(l[1], l[2], "prismatic", AxisZ, AxisX, Origin),
          PassJoint(l[1], l[2], "revolute", AxisZ, AxisX, <<0, 1, 0>>),
          PassJoint(l[1], l[2], "revolute", AxisZ, <<0, 0, -1>>, <<1, 0, 0>>),
          PassJoint(l[1], l[2], "revolute", AxisX, AxisY, Origin),
          PassJoint(l[1], l[2], "prismatic", AxisX, AxisZ, <<0, 1, 0>>),
          PassJoint(l[1], l[2], "revolute", AxisZ, AxisX, <<0, 1, 0>>)
              @@ [detached |-> TRUE],
          [parent |-> l[1], child |-> l[2], type |-> "revolute"]
              @@ ("parent pivot" :> Vec(<<1, 0, 0>>)),
          PassJoint(l[1], l[2], "revolute", AxisZ, Origin, Origin) }
        : l \in PassLinks }
    \cup { PassJoint(AbsentBody, 2, "revolute", AxisZ, AxisZ, Origin),
           PassJoint(1, AbsentBody, "revolute", AxisZ, AxisZ, Origin) }

PassDocuments == UNION {[1..n -> PassJoints] : n \in 1..MaxPassJoints}

\* Vector.angle raises ValueError for a vector of length zero, and so do
\* the callers of get_rot_mat_from_vecs.
AngleRaises(a, b) == Length(a) = 0 \/ Length(b) = 0

\* The alignment-offset part of adjust_body_pivots_and_axis: the writes to
\* self._body_T_j_c[child], T_c_j first and R_ao @ T_c_j when the correction
\* angle is beyond 0.1.
AlignmentOffsetAngle(d_axis_angle) ==
    IF \E i \in 1..3 : d_axis_angle.axis[i] < 0
    THEN -d_axis_angle.angle
    ELSE d_axis_angle.angle

\* An alignment that leaves the offset rotation out.
AlignmentWritesFirstOnly(T_c_j, d_angle, constraint_axis) == <<T_c_j>>

AlignmentWrites(T_c_j, d_angle, constraint_axis) ==
    IF Abs(d_angle) > SmallAngle
    THEN <<T_c_j, Compose(Rotation4(d_angle, constraint_axis), T_c_j)>>
    ELSE <<T_c_j>>

AlignmentOffset(T_c_j, constraint_axis, child_axis, parent_axis) ==
    LET R_caxis_p == get_rot_mat_from_vecs(constraint_axis, parent_axis).mat
        R_cnew_p == Compose(R_caxis_p, T_c_j)
        R_c_p == get_rot_mat_from_vecs(child_axis, parent_axis).mat
        delta_R == Compose(Inverse4(R_cnew_p), R_c_p)
    IN  AlignmentWrites(T_c_j, AlignmentOffsetAngle(ToAxisAngle(delta_R.R)),
                        constraint_axis)

\* child_pivot_data and child_axis_data are the dicts of the record when
\* the record has the keys: the standard values are written into them.
WithStandardChild(joint_data, standard) ==
    LET d == With(joint_data, "child pivot", Vec(standard.pivot)) IN
    IF "child axis" \in DOMAIN joint_data
    THEN With(d, "child axis", Vec(standard.axis))
    ELSE d

\* The body of the loop of adjust_body_pivots_and_axis for one joint:
\* `outcome` is "skip" for a record without child pivot, "return" for a
\* detached one, the exception raised, or "adjusted"; `data` is the record
\* afterwards and `writes` the values assigned to self._body_T_j_c[child].
AdjustedFrom(joint_data, T_c_j, constraint_axis, child_axis, parent_axis, standard) ==
    IF AngleRaises(constraint_axis, parent_axis)
    THEN [outcome |-> "ValueError",
          data |-> WithStandardChild(joint_data, standard), writes |-> <<T_c_j>>]
    ELSE [outcome |-> "adjusted",
          data |-> WithStandardChild(joint_data, standard),
          writes |-> AlignmentOffset(T_c_j, constraint_axis, child_axis, parent_axis)]

AdjustChild(joint_data, constraint_axis, child, parent_axis, standard) ==
    IF AngleRaises(constraint_axis, child.axis)
    THEN [outcome |-> "ValueError", data |-> joint_data, writes |-> <<>>]
    ELSE AdjustedFrom(joint_data,
             Inverse4(Transform(get_rot_mat_from_vecs(constraint_axis, child.axis).mat.R,
                                child.pivot)),
             constraint_axis, child.axis, parent_axis, standard)

adjust_body_pivots_and_axis(joint_data) ==
    IF "child pivot" \notin DOMAIN joint_data
    THEN [outcome |-> "skip", data |-> joint_data, writes |-> <<>>]
    ELSE IF is_detached_joint(joint_data)
    THEN [outcome |-> "return", data |-> joint_data, writes |-> <<>>]
    ELSE IF joint_data.child \notin Bodies
    THEN [outcome |-> "KeyError", data |-> joint_data, writes |-> <<>>]
    ELSE AdjustChild(joint_data,
             Vec(get_standard_pivot_and_axis_data(joint_data.type).axis),
             get_child_pivot_and_axis_data(joint_data),
             get_parent_pivot_and_axis_data(joint_data).axis,
             get_standard_pivot_and_axis_data(joint_data.type))

PassErrors == {"KeyError", "ValueError"}

\* load_blender_joint: the exception raised or "loaded", and the world
\* matrices and parents afterwards.  empty is the object a detached joint
\* gets.
BlenderJointPlaced(joint_data, m, par, T_c_w, empty) ==
    IF is_detached_joint(joint_data)
    THEN [outcome |-> "loaded",
          mw |-> (empty :> T_c_w) @@ m,
          parent |-> (empty :> joint_data.parent) @@ par]
    ELSE [outcome |-> "loaded",
          mw |-> SetWorld(m, par, joint_data.child, T_c_w),
          parent |-> make_obj1_parent_of_obj2(par, joint_data.parent,
                                              joint_data.child)]

load_blender_joint(joint_data, m, par, T_j_c, empty) ==
    IF joint_data.parent \notin Bodies \/ joint_data.child \notin Bodies
    THEN [outcome |-> "KeyError", mw |-> m, parent |-> par]
    ELSE IF AngleRaises(get_child_pivot_and_axis_data(joint_data).axis,
                        get_parent_pivot_and_axis_data(joint_data).axis)
    THEN [outcome |-> "ValueError",
          mw |-> IF is_detached_joint(joint_data)
                 THEN (empty :> Identity4) @@ m ELSE m,
          parent |-> IF is_detached_joint(joint_data)
                     THEN (empty :> None) @@ par ELSE par]
    ELSE BlenderJointPlaced(joint_data, m, par,
             get_child_in_world_transform(joint_data,
                 m[joint_data.parent], T_j_c[joint_data.parent], FALSE),
             empty)

\* load_ambf_joint, the same way; the empty of the joint is there once
\* get_ambf_joint_handle has run, and it is placed before the child pose
\* is composed.
AmbfJointPlaced(joint_data, placed, linked, T_c_w, empty) ==
    [outcome |-> "loaded",
     mw |-> IF linked[joint_data.child] = None
            THEN SetWorld(placed, linked, joint_data.child, T_c_w)
            ELSE placed,
     parent |-> make_obj1_parent_of_obj2(linked, empty, joint_data.child)]

AmbfJointHandlePlaced(joint_data, placed, par, T_p_w, T_p_w_off, empty) ==
    IF AngleRaises(get_child_pivot_and_axis_data(joint_data).axis,
                   get_parent_pivot_and_axis_data(joint_data).axis)
    THEN [outcome |-> "ValueError",
          mw |-> placed, parent |-> (empty :> None) @@ par]
    ELSE AmbfJointPlaced(joint_data, placed,
             (empty :> joint_data.parent) @@ par,
             get_child_in_world_transform(joint_data, T_p_w, T_p_w_off, FALSE),
             empty)

load_ambf_joint(joint_data, m, par, T_j_c, empty) ==
    IF joint_data.parent \notin Bodies \/ joint_data.child \notin Bodies
    THEN [outcome |-> "KeyError", mw |-> m, parent |-> par]
    ELSE IF AngleRaises(Vec(get_standard_pivot_and_axis_data(joint_data.type).axis),
                        get_parent_pivot_and_axis_data(joint_data).axis)
    THEN [outcome |-> "ValueError",
          mw |-> (empty :> Identity4) @@ m, parent |-> (empty :> None) @@ par]
    ELSE AmbfJointHandlePlaced(joint_data,
             (empty :> get_joint_in_world_transform(joint_data,
                  m[joint_data.parent], T_j_c[joint_data.parent], FALSE)) @@ m,
             par, m[joint_data.parent], T_j_c[joint_data.parent], empty)

\* load_body has run for every body: each is at the origin, has no parent
\* and has mathutils.Matrix() in self._body_T_j_c.
InitPass ==
    /\ pdoc \in PassDocuments
    /\ pjoints = pdoc
    /\ plegacy \in BOOLEAN
    /\ padjust \in BOOLEAN
    /\ tjc = [b \in Bodies |-> Identity4]
    /\ tjcWrites = <<>>
    /\ pmw = [b \in Bodies |-> Identity4]
    /\ pparent = [b \in Bodies |-> None]
    /\ aIdx = 0
    /\ pIdx = 0
    /\ perr = None
    /\ ppc = "bodies"
    /\ TreeIdle
    /\ KindIdle
    /\ ExportIdle
    /\ LoadIdle
    /\ RotIdle
    /\ RestIdle

\* `if context.scene.enable_legacy_loading and context.scene.adjust_joint_pivots`
PassAfterBodies ==
    /\ ppc = "bodies"
    /\ ppc' = IF plegacy /\ padjust THEN "adjust" ELSE "joints"
    /\ UNCHANGED <<pdoc, pjoints, plegacy, padjust, tjc, tjcWrites, pmw,
                   pparent, aIdx, pIdx, perr>>
    /\ UNCHANGED notPass

\* One round of the loop of adjust_body_pivots_and_axis; r is what the
\* body of the loop did with the joint.
PassAdjusted(r, child) ==
    /\ pjoints' = [pjoints EXCEPT ![aIdx + 1] = r.data]
    /\ tjc' = IF r.writes = <<>> THEN tjc
              ELSE [tjc EXCEPT ![child] = r.writes[Len(r.writes)]]
    /\ tjcWrites' = tjcWrites \o
           [i \in 1..Len(r.writes) |->
               [body |-> child, joint |-> aIdx + 1, T |-> r.writes[i]]]
    /\ ppc' = IF r.outcome \in PassErrors THEN "raised"
              ELSE IF r.outcome = "return" THEN "joints"
              ELSE "adjust"
    /\ perr' = IF r.outcome \in PassErrors THEN r.outcome ELSE None

PassAdjustJoint ==
    /\ ppc = "adjust"
    /\ aIdx < Len(pjoints)
    /\ PassAdjusted(adjust_body_pivots_and_axis(pjoints[aIdx + 1]),
                    pjoints[aIdx + 1].child)
    /\ aIdx' = aIdx + 1
    /\ UNCHANGED <<pdoc, plegacy, padjust, pmw, pparent, pIdx>>
    /\ UNCHANGED notPass

\* The loop of adjust_body_pivots_and_axis has taken every joint.
PassAdjustDone ==
    /\ ppc = "adjust"
    /\ aIdx = Len(pjoints)
    /\ ppc' = "joints"
    /\ UNCHANGED <<pdoc, pjoints, plegacy, padjust, tjc, tjcWrites, pmw,
                   pparent, aIdx, pIdx, perr>>
    /\ UNCHANGED notPass

\* One round of `for joint_name in joints_list`; r is what loading the
\* joint did.
PassLoaded(r) ==
    /\ pmw' = r.mw
    /\ pparent' = r.parent
    /\ IF r.outcome \in PassErrors
       THEN /\ ppc' = "raised"
            /\ perr' = r.outcome
            /\ pIdx' = pIdx
       ELSE /\ ppc' = "joints"
            /\ perr' = None
            /\ pIdx' = pIdx + 1

PassLoadBlenderJoint ==
    /\ ppc = "joints"
    /\ plegacy
    /\ pIdx < Len(pjoints)
    /\ PassLoaded(load_blender_joint(pjoints[pIdx + 1], pmw, pparent, tjc,
                                     LoadBodies + pIdx + 1))
    /\ UNCHANGED <<pdoc, pjoints, plegacy, padjust, tjc, tjcWrites, aIdx>>
    /\ UNCHANGED notPass

PassLoadAmbfJoint ==
    /\ ppc = "joints"
    /\ ~plegacy
    /\ pIdx < Len(pjoints)
    /\ PassLoaded(load_ambf_joint(pjoints[pIdx + 1], pmw, pparent, tjc,
                                  LoadBodies + pIdx + 1))
    /\ UNCHANGED <<pdoc, pjoints, plegacy, padjust, tjc, tjcWrites, aIdx>>
    /\ UNCHANGED notPass

\* `return {'FINISHED'}`
PassFinish ==
    /\ ppc = "joints"
    /\ pIdx = Len(pjoints)
    /\ ppc' = "finished"
    /\ UNCHANGED <<pdoc, pjoints, plegacy, padjust, tjc, tjcWrites, pmw,
                   pparent, aIdx, pIdx, perr>>
    /\ UNCHANGED notPass

NextPass ==
    \/ PassAfterBodies
    \/ PassAdjustJoint
    \/ PassAdjustDone
    \/ PassLoadBlenderJoint
    \/ PassLoadAmbfJoint
    \/ PassFinish

SpecPass == InitPass /\ [][NextPass]_vars

\* execute is over: it returned, or an exception left it.
PassEnded == ppc \in {"finished", "raised"}

\* A joint that names two bodies of the document and whose axes have a
\* length.
WellFormed(joint_data) ==
    /\ joint_data.parent \in Bodies
    /\ joint_data.child \in Bodies
    /\ ~AngleRaises(get_child_pivot_and_axis_data(joint_data).axis,
                    get_parent_pivot_and_axis_data(joint_data).axis)

\* The joints the joint loop has loaded are the first pIdx of the list.
JointLoaded(i) == i <= pIdx

\* C12: a joint that names a body absent from the document, or has an axis
\* of length zero, aborts only itself: when the pass is over every other
\* joint of the `joints` list has been loaded.
C12_BadJointAbortsOnlyItself ==
    PassEnded => \A i \in 1..Len(pdoc) : WellFormed(pdoc[i]) => JointLoaded(i)

\* What the pass does with such a joint: the exception leaves execute, so
\* that a pass returns only when every joint of the list is well formed,
\* and no joint after the failing one is loaded.
BadJointEndsPass ==
    /\ ppc = "finished" => \A i \in 1..Len(pdoc) : WellFormed(pdoc[i])
    /\ ppc = "raised" => /\ perr \in PassErrors
                         /\ \E i \in 1..Len(pdoc) : ~WellFormed(pdoc[i])
                         /\ \A i \in 1..Len(pdoc) :
                                JointLoaded(i) => WellFormed(pdoc[i])

\* adjust_body_pivots_and_axis has run and the joint loop is reached.
AlignmentOver == plegacy /\ padjust /\ ppc \in {"joints", "finished"}

\* The nominal axis of the joint's kind.
NominalAxis(joint_data) ==
    Vec(get_standard_pivot_and_axis_data(joint_data.type).axis)

\* The joint has been adjusted: its child pivot is at the origin, its child
\* axis (when the record has one) is the nominal axis, and its child has
\* been given a correction frame.
Adjusted(i) ==
    /\ pjoints[i]["child pivot"] = Vec(Origin)
    /\ "child axis" \in DOMAIN pjoints[i] => pjoints[i]["child axis"] = NominalAxis(pdoc[i])
    /\ \E w \in 1..Len(tjcWrites) : tjcWrites[w].joint = i

\* C15: after adjust_body_pivots_and_axis every joint that is not detached
\* and has a `child pivot` has been adjusted, wherever the detached joints
\* stand in the list, and the detached joints are as they were.
C15_AlignmentSkipsOnlyDetached ==
    AlignmentOver =>
        \A i \in 1..Len(pdoc) :
            /\ (~is_detached_joint(pdoc[i]) /\ "child pivot" \in DOMAIN pdoc[i])
                   => Adjusted(i)
            /\ is_detached_joint(pdoc[i]) => pjoints[i] = pdoc[i]

\* What the pass does: a detached joint that has a `child pivot` ends it
\* (`return`), so that the joints adjusted are those before the first such
\* joint and every joint from it on is as it was.
RECURSIVE FirstDetachedFrom(_)
FirstDetachedFrom(i) ==
    IF i > Len(pdoc) THEN i
    ELSE IF is_detached_joint(pdoc[i]) /\ "child pivot" \in DOMAIN pdoc[i] THEN i
    ELSE FirstDetachedFrom(i + 1)

AlignmentEndsAtFirstDetached ==
    AlignmentOver =>
        \A i \in 1..Len(pdoc) :
            IF i < FirstDetachedFrom(1)
            THEN "child pivot" \in DOMAIN pdoc[i] => Adjusted(i)
            ELSE pjoints[i] = pdoc[i]

\* C14: a body's correction frame is written at most once by
\* adjust_body_pivots_and_axis in one pass.
C14_CorrectionFrameWrittenOnce ==
    \A w \in 1..Len(tjcWrites) : \A v \in 1..Len(tjcWrites) :
        tjcWrites[w].body = tjcWrites[v].body => w = v

\* What the pass does: the frame of a body is written once per joint that
\* names it as child, and once more when the alignment offset applies.
CorrectionFrameWritesPerJoint ==
    \A i \in 1..Len(pdoc) :
        Cardinality({w \in 1..Len(tjcWrites) : tjcWrites[w].joint = i}) <= 2

\* Two transform matrices within the tolerances.
CloseTransform(a, b) ==
    /\ CloseRot(a.R, b.R, RotationTol)
    /\ CloseVec(a.t, b.t, TranslationTol)

\* A joint that is canonical already: not detached, its child pivot at the
\* origin and its child axis the nominal axis of its kind.
Canonical(joint_data) ==
    /\ WellFormed(joint_data)
    /\ ~is_detached_joint(joint_data)
    /\ "child pivot" \in DOMAIN joint_data
    /\ joint_data["child pivot"] = Vec(Origin)
    /\ get_child_pivot_and_axis_data(joint_data).axis = Vec(TableAxis(joint_data.type))

\* C16: the alignment of a joint that is canonical already gives its child
\* an identity correction frame and leaves the record as it was, whatever
\* the parent axis.
C16_AlignmentIdempotent ==
    \A w \in 1..Len(tjcWrites) :
        Canonical(pdoc[tjcWrites[w].joint]) =>
            /\ CloseTransform(tjcWrites[w].T, Identity4)
            /\ pjoints[tjcWrites[w].joint] = pdoc[tjcWrites[w].joint]

\* Canonical joints have been aligned: a prismatic one, and a revolute one
\* whose parent axis is oblique to its child axis.
C16_Witness ==
    /\ Len(tjcWrites) = 2
    /\ Canonical(pdoc[1]) /\ pdoc[1].type = "prismatic"
    /\ Canonical(pdoc[2]) /\ pdoc[2]["parent axis"] = <<0, 6000, 8000>>
    /\ tjcWrites[1].joint = 1
    /\ tjcWrites[2].joint = 2

\* The joint of the document that names b as child (0: none).
ChildJoint(b) ==
    LET at == {i \in 1..Len(pdoc) : pdoc[i].child = b} IN
    IF at = {} THEN 0 ELSE CHOOSE i \in at : \A k \in at : i <= k

\* A chain of joints that are not detached: every joint is well formed and
\* has a child pivot, no two joints name the same child, and a joint stands
\* after the joint that positions its parent.
IsChain ==
    \A i \in 1..Len(pdoc) :
        /\ WellFormed(pdoc[i])
        /\ ~is_detached_joint(pdoc[i])
        /\ "child pivot" \in DOMAIN pdoc[i]
        /\ ChildJoint(pdoc[i].child) = i
        /\ ChildJoint(pdoc[i].parent) < i

\* The world pose of body b composed from the joint geometry of the
\* document as it was before the alignment, with no correction frame.
RECURSIVE OriginalPose(_, _)
OriginalPose(b, n) ==
    IF n = 0 \/ ChildJoint(b) = 0 THEN Identity4
    ELSE get_child_in_world_transform(pdoc[ChildJoint(b)],
             OriginalPose(pdoc[ChildJoint(b)].parent, n - 1), Identity4, FALSE)

\* Two poses within 1e-3 in every entry.
ClosePose(a, b) ==
    /\ CloseRot(a.R, b.R, RotationTol)
    /\ CloseVec(a.t, b.t, RotationTol)

AlignedChainLoaded == ppc = "finished" /\ plegacy /\ padjust /\ IsChain

UnadjustedPosesAreOriginal ==
    (ppc = "finished" /\ plegacy /\ ~padjust /\ IsChain) =>
        \A b \in Bodies : ClosePose(pmw[b], OriginalPose(b, LoadBodies))

-----------------------------------------------------------------------------
(***************************************************************************)
(* The two rotation-from-two-vectors functions on their own:               *)
(* rot_matrix_from_vecs and get_rot_mat_from_vecs applied to a pair of     *)
(* non-zero vectors.                                                       *)
(***************************************************************************)

\* The directions of the inputs: the axes, three oblique unit vectors whose
\* coordinates are exact, and the opposite of each.
RotDirections ==
    LET d == {<<10000, 0, 0>>, <<0, 10000, 0>>, <<0, 0, 10000>>,
              <<6000, 8000, 0>>, <<0, 2800, 9600>>, <<0, 6000, 8000>>}
    IN  d \cup {VecNeg(v) : v \in d}

\* The lengths of the inputs, in halves: 0.5, 1 and 2.
RotHalves == {1, 2, 4}

Halves(v, k) == <<(v[1] * k) \div 2, (v[2] * k) \div 2, (v[3] * k) \div 2>>

RotVectors == {Halves(v, k) : v \in RotDirections, k \in RotHalves}

\* rot_matrix_from_vecs as a call: the last branch divides by
\* vec_norm(vcross) ** 2, which is 0.0 when the cross product is zero.
RotMatrixDividesByZero(v1, v2) ==
    /\ ~(FP - Dot(v1, v2) < ParallelTol)
    /\ ~(FP + Dot(v1, v2) < ParallelTol)
    /\ Cross(v1, v2) = <<0, 0, 0>>

RotMatrixCall(v1, v2) ==
    IF RotMatrixDividesByZero(v1, v2)
    THEN [outcome |-> "ZeroDivisionError", mat |-> None]
    ELSE [outcome |-> "ok", mat |-> rot_matrix_from_vecs(v1, v2)]

\* get_rot_mat_from_vecs as a call: no branch of it raises for non-zero
\* vectors.
GetRotMatCall(r) == [outcome |-> "ok", mat |-> r.mat, angle |-> r.angle]

InitRot ==
    /\ rv1 \in RotVectors
    /\ rv2 \in RotVectors
    /\ rout = NoResult
    /\ rget = NoResult
    /\ TreeIdle /\ KindIdle /\ ExportIdle /\ LoadIdle /\ PassIdle
    /\ RestIdle

RotMatrixFromVecs ==
    /\ rout = NoResult
    /\ rout' = RotMatrixCall(rv1, rv2)
    /\ UNCHANGED <<rv1, rv2, rget>>
    /\ UNCHANGED notRot

GetRotMatFromVecs ==
    /\ rget = NoResult
    /\ rget' = GetRotMatCall(get_rot_mat_from_vecs(rv1, rv2))
    /\ UNCHANGED <<rv1, rv2, rout>>
    /\ UNCHANGED notRot

NextRot ==
    \/ RotMatrixFromVecs
    \/ GetRotMatFromVecs

SpecRot == InitRot /\ [][NextRot]_vars

\* Every entry of m is within [-1, 1] and m m^T is the identity, to 1e-3.
Orthonormal(m) ==
    /\ \A i \in 1..3 : \A j \in 1..3 : Abs(m[i][j]) <= FP + RotationTol
    /\ CloseRot(MatMul(m, Transpose3(m)), Identity3, RotationTol)

\* m is a rotation of pi about an axis orthogonal to a: it is orthonormal,
\* its trace is -1 and it takes a to -a.
HalfTurnAcross(m, a) ==
    /\ Orthonormal(m)
    /\ Abs(Trace(m) + FP) <= 3 * RotationTol
    /\ CloseVec(MatVec(m, a), VecNeg(a), 3 * RotationTol)

\* The axis the code takes for opposite vectors is not zero and is
\* orthogonal to a.
OppositeAxisOrthogonal(a) ==
    /\ OppositeAxis(a) # <<0, 0, 0>>
    /\ Dot(OppositeAxis(a), a) = 0

OppositeInputs == rv2 = VecNeg(rv1)

\* C18: given (a, -a) both functions return a rotation of pi about a
\* non-zero axis orthogonal to a, for every non-zero a.
C18_OppositeVectorsHalfTurn ==
    OppositeInputs =>
        /\ OppositeAxisOrthogonal(rv1)
        /\ rout # NoResult =>
               rout.outcome = "ok" /\ HalfTurnAcross(rout.mat, rv1)
        /\ rget # NoResult => HalfTurnAcross(rget.mat.R, rv1)

\* What holds of (a, -a): get_rot_mat_from_vecs gives the half turn for
\* every a; rot_matrix_from_vecs gives it when |a|^2 > 0.9 and divides by
\* zero otherwise.
OppositeVectorsAsCoded ==
    OppositeInputs =>
        /\ OppositeAxisOrthogonal(rv1)
        /\ rget # NoResult => HalfTurnAcross(rget.mat.R, rv1)
        /\ rout # NoResult =>
               IF FP - Dot(rv1, rv1) < ParallelTol
               THEN rout.outcome = "ok" /\ HalfTurnAcross(rout.mat, rv1)
               ELSE rout.outcome = "ZeroDivisionError"

\* u and v lie along one line: the cross product of their directions is
\* zero to 1e-3.
Parallel(u, v) ==
    /\ Length(u) > 0
    /\ \A i \in 1..3 : Abs(Cross(Normalized(u), Normalized(v))[i]) <= RotationTol

\* C19: rot_matrix_from_vecs(from, to) returns an orthonormal matrix R with
\* R from parallel to `to`, for all non-zero inputs.
C19_RotMatrixAlignsAnyInputs ==
    rout # NoResult =>
        /\ rout.outcome = "ok"
        /\ Orthonormal(rout.mat)
        /\ Parallel(MatVec(rout.mat, rv1), rv2)

UnitInputs == Length(rv1) = FP /\ Length(rv2) = FP

\* What holds: for unit inputs the result is orthonormal; it is the
\* identity when the dot product is above 0.9, a turn by the angle between
\* the two about the axis taken for opposite vectors when it is below
\* -0.9, and takes v1 onto the line of v2 in between.
RotMatrixAsCoded ==
    (rout # NoResult /\ UnitInputs) =>
        /\ rout.outcome = "ok"
        /\ Orthonormal(rout.mat)
        /\ IF FP - Dot(rv1, rv2) < ParallelTol
           THEN rout.mat = Identity3
           ELSE IF FP + Dot(rv1, rv2) < ParallelTol
           THEN rout.mat = Rotation(Angle(rv1, rv2), OppositeAxis(rv1))
           ELSE Parallel(MatVec(rout.mat, rv1), rv2)

\* The case rot_matrix_from_vecs puts a pair in: its tests are on the dot
\* product of the two vectors as given.
MatrixCase(v1, v2) ==
    IF FP - Dot(v1, v2) < ParallelTol THEN "near-parallel"
    ELSE IF FP + Dot(v1, v2) < ParallelTol THEN "near-antiparallel"
    ELSE "general"

\* The case get_rot_mat_from_vecs puts a pair in: its tests are on the
\* angle between the two vectors.
AxisAngleCase(vecA, vecB) ==
    IF Abs(Angle(vecA, vecB)) <= SmallAngle THEN "near-parallel"
    ELSE IF Abs(Angle(vecA, vecB)) >= NearPiAngle THEN "near-antiparallel"
    ELSE "general"

BothCalled == rout # NoResult /\ rget # NoResult

\* C24: for every pair of vectors get_rot_mat_from_vecs and
\* rot_matrix_from_vecs put the pair in the same case (near-parallel,
\* near-antiparallel, general) and return the same rotation.
C24_VariantsShareDegeneratePolicy ==
    BothCalled =>
        /\ MatrixCase(rv1, rv2) = AxisAngleCase(rv1, rv2)
        /\ rout.outcome = "ok"
        /\ CloseRot(rout.mat, rget.mat.R, RotationTol)

\* What holds, for unit inputs: a pair the axis-angle variant takes for
\* near-parallel or near-antiparallel is in the same case of the matrix
\* variant, and for a pair both put in one case the rotations are equal.
VariantsAsCoded ==
    (BothCalled /\ UnitInputs) =>
        /\ AxisAngleCase(rv1, rv2) # "general" =>
               MatrixCase(rv1, rv2) = AxisAngleCase(rv1, rv2)
        /\ MatrixCase(rv1, rv2) = AxisAngleCase(rv1, rv2) =>
               /\ rout.outcome = "ok"
               /\ CloseRot(rout.mat, rget.mat.R, RotationTol)

\* Unit vectors 0.28 rad apart: the identity for the matrix variant, a
\* rotation by 0.28 rad for the axis-angle variant.
CasesDifferReached ==
    /\ BothCalled /\ UnitInputs
    /\ MatrixCase(rv1, rv2) = "near-parallel"
    /\ AxisAngleCase(rv1, rv2) = "general"
    /\ rout.mat = Identity3
    /\ ~CloseRot(rget.mat.R, Identity3, RotationTol)

-----------------------------------------------------------------------------
(***************************************************************************)
(* Namespaces: update_global_namespace, set_global_namespace,              *)
(* get_body_namespace, remove_namespace_prefix.  A string is the sequence  *)
(* of its characters.                                                      *)
(***************************************************************************)

NsChars == {"/", "a", "b"}

\* Longest object name, longest namespace string and number of calls of
\* the two namespace setters in the modelled runs.
MaxNameLen == 3
MaxNsLen == 2
MaxNsCalls == 2

Strings(n) == UNION {[1..k -> NsChars] : k \in 0..n}

\* Blender gives every object a name that is not empty.
NsNames == Strings(MaxNameLen) \ {<<>>}
NsNamespaces == Strings(MaxNsLen)

EndsWithSlash(str) == Len(str) > 0 /\ str[Len(str)] = "/"

\* update_global_namespace: `CommonConfig.namespace[-1]` raises IndexError
\* on the empty string, after the assignment to CommonConfig.namespace.
update_global_namespace(scene_ns) ==
    IF scene_ns = <<>>
    THEN [outcome |-> "IndexError", common |-> scene_ns, scene |-> scene_ns]
    ELSE IF scene_ns[Len(scene_ns)] # "/"
    THEN [outcome |-> "ok", common |-> scene_ns \o <<"/">>,
          scene |-> scene_ns \o (scene_ns \o <<"/">>)]
    ELSE [outcome |-> "ok", common |-> scene_ns, scene |-> scene_ns]

\* set_global_namespace: the scene keeps its namespace when the index
\* raises.
set_global_namespace(scene_ns, namespace) ==
    IF namespace = <<>>
    THEN [outcome |-> "IndexError", common |-> namespace, scene |-> scene_ns]
    ELSE IF namespace[Len(namespace)] # "/"
    THEN [outcome |-> "ok", common |-> namespace \o <<"/">>,
          scene |-> namespace \o <<"/">>]
    ELSE [outcome |-> "ok", common |-> namespace, scene |-> namespace]

get_body_namespace(fullname) ==
    LET last_occurance == RFind(fullname, "/") IN
    IF last_occurance >= 0 THEN SubSeq(fullname, 1, last_occurance + 1)
    ELSE <<>>

remove_namespace_prefix(full_name) ==
    LET last_occurance == RFind(full_name, "/") IN
    IF last_occurance > 0
    THEN SubSeq(full_name, last_occurance + 2, Len(full_name))
    ELSE full_name

InitNs ==
    /\ sceneNs \in NsNamespaces
    /\ commonNs = <<>>
    /\ fullName \in NsNames
    /\ nsOut = NoResult
    /\ nsCalls = <<>>
    /\ TreeIdle /\ KindIdle /\ ExportIdle /\ LoadIdle /\ PassIdle /\ RotIdle
    /\ DocIdle /\ BodiesIdle /\ ActivateIdle

\* What a call of one of the two setters leaves behind.
NsCalled(op, r) ==
    /\ commonNs' = r.common
    /\ sceneNs' = r.scene
    /\ nsCalls' = Append(nsCalls, [op |-> op, outcome |-> r.outcome,
                                   common |-> r.common, scene |-> r.scene])

UpdateGlobalNamespace ==
    /\ Len(nsCalls) < MaxNsCalls
    /\ NsCalled("update", update_global_namespace(sceneNs))
    /\ UNCHANGED <<fullName, nsOut>>
    /\ UNCHANGED notNs

SetGlobalNamespace ==
    /\ Len(nsCalls) < MaxNsCalls
    /\ \E namespace \in NsNamespaces :
           NsCalled("set", set_global_namespace(sceneNs, namespace))
    /\ UNCHANGED <<fullName, nsOut>>
    /\ UNCHANGED notNs

SplitName ==
    /\ nsOut = NoResult
    /\ nsOut' = [outcome |-> "ok",
                 namespace |-> get_body_namespace(fullName),
                 name |-> remove_namespace_prefix(fullName)]
    /\ UNCHANGED <<sceneNs, commonNs, fullName, nsCalls>>
    /\ UNCHANGED notNs

NextNs ==
    \/ UpdateGlobalNamespace
    \/ SetGlobalNamespace
    \/ SplitName

SpecNs == InitNs /\ [][NextNs]_vars

HasSlash(str) == \E i \in 1..Len(str) : str[i] = "/"

\* C28: the namespace of a full name followed by the name without its
\* namespace is the full name, and the name without its namespace has no
\* '/' in it.
C28_SplitLosesNothing ==
    nsOut # NoResult =>
        /\ nsOut.namespace \o nsOut.name = fullName
        /\ ~HasSlash(nsOut.name)

\* What holds: the split is exact unless the only '/' of the name is its
\* first character, and then the name is returned whole beside the
\* namespace "/".
SplitAsCoded ==
    nsOut # NoResult =>
        IF RFind(fullName, "/") = 0
        THEN nsOut.namespace = <<"/">> /\ nsOut.name = fullName
        ELSE /\ nsOut.namespace \o nsOut.name = fullName
             /\ ~HasSlash(nsOut.name)

\* C29: after update_global_namespace CommonConfig.namespace ends with '/'
\* and the namespace of the scene equals it, for every namespace of the
\* scene; a second call leaves both as they are.
C29_UpdateNormalizesNamespace ==
    \A i \in 1..Len(nsCalls) :
        nsCalls[i].op = "update" =>
            /\ nsCalls[i].outcome = "ok"
            /\ EndsWithSlash(nsCalls[i].common)
            /\ nsCalls[i].scene = nsCalls[i].common
            /\ (i > 1 /\ nsCalls[i - 1].op = "update") =>
                   /\ nsCalls[i].common = nsCalls[i - 1].common
                   /\ nsCalls[i].scene = nsCalls[i - 1].scene

\* What holds: CommonConfig.namespace ends with '/' after every call that
\* returns, the call raises on the empty string, and the two namespaces
\* agree when the namespace of the scene ended with '/' before the call;
\* set_global_namespace leaves the two equal.
UpdateAsCoded ==
    \A i \in 1..Len(nsCalls) :
        IF nsCalls[i].outcome = "ok"
        THEN /\ EndsWithSlash(nsCalls[i].common)
             /\ nsCalls[i].op = "set" => nsCalls[i].scene = nsCalls[i].common
             /\ (i > 1 /\ nsCalls[i - 1].outcome = "ok"
                       /\ nsCalls[i].op = "update") =>
                    nsCalls[i].scene = nsCalls[i].common
        ELSE nsCalls[i].common = <<>>

-----------------------------------------------------------------------------
(***************************************************************************)
(* The activate operators: AMBF_OT_ambf_rigid_body_activate.execute and    *)
(* AMBF_OT_ambf_constraint_activate.execute on context.object.             *)
(***************************************************************************)

\* Number of operator calls in the modelled runs.
MaxOps == 4

\* The defaults of the properties of bpy.types.Object.
ObjectDefaults ==
    [ambf_object_type |-> "NONE",
     ambf_rigid_body_enable |-> FALSE,
     ambf_constraint_enable |-> FALSE,
     collision_shapes |-> 0]

\* AMBF_OT_ambf_rigid_body_activate.execute: the flag is toggled, the type
\* follows the flag, and an object with no collision shape gets one.
ambf_rigid_body_activate(o) ==
    IF ~o.ambf_rigid_body_enable
    THEN [o EXCEPT !.ambf_rigid_body_enable = TRUE,
                   !.ambf_object_type = "RIGID_BODY",
                   !.collision_shapes = IF @ = 0 THEN 1 ELSE @]
    ELSE [o EXCEPT !.ambf_rigid_body_enable = FALSE,
                   !.ambf_object_type = "NONE"]

\* AMBF_OT_ambf_constraint_activate.execute
ambf_constraint_activate(o) ==
    IF ~o.ambf_constraint_enable
    THEN [o EXCEPT !.ambf_constraint_enable = TRUE,
                   !.ambf_object_type = "CONSTRAINT"]
    ELSE [o EXCEPT !.ambf_constraint_enable = FALSE,
                   !.ambf_object_type = "NONE"]

InitActivate ==
    /\ aobj = [o \in Objects |-> ObjectDefaults]
    /\ aops = 0
    /\ TreeIdle /\ KindIdle /\ ExportIdle /\ LoadIdle /\ PassIdle /\ RotIdle
    /\ NsIdle /\ DocIdle /\ BodiesIdle

RigidBodyActivate ==
    /\ aops < MaxOps
    /\ \E o \in Objects :
           aobj' = [aobj EXCEPT ![o] = ambf_rigid_body_activate(aobj[o])]
    /\ aops' = aops + 1
    /\ UNCHANGED notActivate

ConstraintActivate ==
    /\ aops < MaxOps
    /\ \E o \in Objects :
           aobj' = [aobj EXCEPT ![o] = ambf_constraint_activate(aobj[o])]
    /\ aops' = aops + 1
    /\ UNCHANGED notActivate

NextActivate ==
    \/ RigidBodyActivate
    \/ ConstraintActivate

SpecActivate == InitActivate /\ [][NextActivate]_vars

\* C30: after any sequence of the two operators the type of an object
\* agrees with its flags: RIGID_BODY only if the rigid body flag is set,
\* CONSTRAINT only if the constraint flag is set, NONE only if neither is.
C30_TypeAgreesWithFlags ==
    \A o \in Objects :
        /\ aobj[o].ambf_object_type = "RIGID_BODY" => aobj[o].ambf_rigid_body_enable
        /\ aobj[o].ambf_object_type = "CONSTRAINT" => aobj[o].ambf_constraint_enable
        /\ aobj[o].ambf_object_type = "NONE" =>
               (~aobj[o].ambf_rigid_body_enable /\ ~aobj[o].ambf_constraint_enable)

\* What holds: a type other than NONE has its flag set, and an object
\* with a flag set has a collision shape or is a constraint only.
ActivateAsCoded ==
    \A o \in Objects :
        /\ aobj[o].ambf_object_type = "RIGID_BODY" => aobj[o].ambf_rigid_body_enable
        /\ aobj[o].ambf_object_type = "CONSTRAINT" => aobj[o].ambf_constraint_enable
        /\ aobj[o].ambf_rigid_body_enable => aobj[o].collision_shapes = 1


-----------------------------------------------------------------------------
(***************************************************************************)
(* The exported document: generate_ambf_yaml with the body loop and the    *)
(* joint loop, for both export paths.  A record keeps its name, its        *)
(* namespace, the bodies of a joint and every numeric field; a numeric     *)
(* field is the sequence of its numbers.                                   *)
(***************************************************************************)

\* Numbers of the document are counts of 10^-5, one digit finer than the
\* four decimals of round(x, 4).
Fine == 10
One == Fine * FP

\* round(x, 4): the nearest multiple of 10^-4, a tie to the even one.
Round4(x) ==
    LET q == x \div Fine
        r == x % Fine
    IN  IF 2 * r < Fine THEN Fine * q
        ELSE IF 2 * r > Fine THEN Fine * (q + 1)
        ELSE IF q % 2 = 0 THEN Fine * q ELSE Fine * (q + 1)

\* round(x): the nearest integer, a tie to the even one.
Round0(x) ==
    LET q == x \div One
        r == x % One
    IN  IF 2 * r < One THEN One * q
        ELSE IF 2 * r > One THEN One * (q + 1)
        ELSE IF q % 2 = 0 THEN One * q ELSE One * (q + 1)

Rounded4(x) == x % Fine = 0

\* The value of the float properties of the objects of a scene: 0.1 and
\* 0.12346.
DocValues == {10000, 12346}

\* Full names of the two bodies of a scene; Blender keeps the names of
\* bpy.data.objects distinct.
DocNamePairs ==
    {<< <<"a">>, <<"b">> >>,
     << <<"a">>, <<"a", "/", "a">> >>,
     << <<"a", "/", "a">>, <<"b", "/", "a">> >>}

\* Names of the two objects that hold the constraints.
DocHolderNames == << <<"a", "b">>, <<"b", "a">> >>

\* What the bodies of a scene are: the type of the object, static or not,
\* one collision shape or a compound of one, and the type of the
\* constraints between them (ambf_constraint_type, and the type and flags of
\* rigid_body_constraint that give the same joint type on the legacy path).
DocProfiles ==
    {[type |-> "EMPTY", is_static |-> FALSE, collision_type |-> "SINGULAR_SHAPE",
      constraint_type |-> "REVOLUTE", rbc_type |-> "HINGE"],
     [type |-> "MESH", is_static |-> FALSE, collision_type |-> "SINGULAR_SHAPE",
      constraint_type |-> "LINEAR_SPRING", rbc_type |-> "GENERIC_SPRING"],
     [type |-> "MESH", is_static |-> FALSE, collision_type |-> "COMPOUND_SHAPE",
      constraint_type |-> "FIXED", rbc_type |-> "FIXED"],
     [type |-> "MESH", is_static |-> TRUE, collision_type |-> "SINGULAR_SHAPE",
      constraint_type |-> "PRISMATIC", rbc_type |-> "SLIDER"]}

\* An object of bpy.data.objects.  rigid_body and rigid_body_constraint say
\* whether the object has them; parent and child are positions in the list
\* of the objects (ambf_constraint_parent / ambf_constraint_child, and
\* object1 / object2 of rigid_body_constraint), None when not set.
DocObject(name, profile, value, object_type, hidden, linked, constraint_name, parent, child) ==
    [name |-> name,
     type |-> IF object_type = "CONSTRAINT" THEN "EMPTY" ELSE profile.type,
     hidden |-> hidden,
     linked |-> linked,
     ambf_object_type |-> object_type,
     rigid_body |-> object_type = "RIGID_BODY",
     rigid_body_constraint |-> object_type = "CONSTRAINT",
     is_static |-> profile.is_static,
     collision_type |-> profile.collision_type,
     constraint_type |-> profile.constraint_type,
     rbc_type |-> profile.rbc_type,
     constraint_name |-> constraint_name,
     parent |-> parent,
     child |-> child,
     value |-> value]

\* A body of the scene: exported as it is, hidden, unlinked from the scene,
\* or not marked as a rigid body.
DocBodyStates == {"plain", "hidden", "unlinked", "none"}

DocRigidBody(name, profile, value, state) ==
    DocObject(name, profile, value,
              IF state = "none" THEN "NONE" ELSE "RIGID_BODY",
              state = "hidden", state # "unlinked", <<>>, None, None)

\* The second constraint of a scene: its type, hidden or not, its name and
\* its two bodies.
DocSecondConstraints ==
    {[object_type |-> "NONE", hidden |-> FALSE, constraint_name |-> <<>>,
      parent |-> None, child |-> None],
     [object_type |-> "CONSTRAINT", hidden |-> FALSE, constraint_name |-> <<>>,
      parent |-> 1, child |-> 2],
     [object_type |-> "CONSTRAINT", hidden |-> FALSE, constraint_name |-> <<"j">>,
      parent |-> 1, child |-> 2],
     [object_type |-> "CONSTRAINT", hidden |-> FALSE, constraint_name |-> <<>>,
      parent |-> 2, child |-> 1],
     [object_type |-> "CONSTRAINT", hidden |-> FALSE, constraint_name |-> <<>>,
      parent |-> 1, child |-> None],
     [object_type |-> "CONSTRAINT", hidden |-> TRUE, constraint_name |-> <<>>,
      parent |-> 1, child |-> 2]}

\* The scenes: two bodies, a constraint from the first to the second, and a
\* second constraint.
DocScenes ==
    {<< DocRigidBody(names[1], profile, value, state1),
        DocRigidBody(names[2], profile, value, state2),
        DocObject(DocHolderNames[1], profile, value, "CONSTRAINT", FALSE, TRUE,
                  name1, 1, 2),
        DocObject(DocHolderNames[2], profile, value, second.object_type,
                  second.hidden, TRUE, second.constraint_name,
                  second.parent, second.child) >> :
        names \in DocNamePairs, profile \in DocProfiles, value \in DocValues,
        state1 \in {"plain", "none"}, state2 \in DocBodyStates,
        name1 \in {<<>>, <<"j">>}, second \in DocSecondConstraints}

\* Namespaces of the scene when the export starts.
DocNamespaces == {<<"a", "/">>, <<>>}


compare_body_namespace_with_global(fullname, namespace) ==
    /\ RFind(fullname, "/") >= 0
    /\ namespace = SubSeq(fullname, 1, RFind(fullname, "/") + 1)

add_body_prefix_str(urdf_body_str) == <<"BODY ">> \o urdf_body_str

add_joint_prefix_str(urdf_joint_str) == <<"JOINT ">> \o urdf_joint_str

\* Six numbers of a pose, three of a position.
Pose6(x) == <<x, x, x, x, x, x>>
Xyz(x) == <<x, x, x>>

\* The fields a record has that are not numbers.
TextFields == {"name", "namespace", "parent", "child", "type"}

Numbers(record) ==
    UNION {{record[f][i] : i \in 1..Len(record[f])} :
               f \in DOMAIN record \ TextFields}

\* BodyTemplate()._ambf_data
BodyTemplate ==
    ("collision margin" :> <<One \div 1000>>)
    @@ ("inertial offset" :> Pose6(0))
    @@ [name |-> <<>>, mass |-> <<0>>, inertia |-> Xyz(0), scale |-> <<One>>,
        location |-> Pose6(0)]

\* JointTemplate()._ambf_data, every number of it
JointTemplateNumbers ==
    ("parent axis" :> Xyz(0)) @@ ("parent pivot" :> Xyz(0))
    @@ ("child axis" :> Xyz(0)) @@ ("child pivot" :> Xyz(0))
    @@ ("joint limits" :> <<-((12 * One) \div 10), (12 * One) \div 10>>)
    @@ ("body rotation" :> <<0, 0, 0, 0, 0, 0, 0, 0, 0>>)
    @@ [name |-> <<>>, parent |-> <<>>, child |-> <<>>,
        controller |-> <<1000 * One, 0, One>>]

\* The namespace and the name both body exports start a record with.
NamedBody(obj_handle, namespace) ==
    LET named == With(BodyTemplate, "name", remove_namespace_prefix(obj_handle.name))
    IN  IF ~compare_body_namespace_with_global(obj_handle.name, namespace)
           /\ get_body_namespace(obj_handle.name) # <<>>
        THEN With(named, "namespace", get_body_namespace(obj_handle.name))
        ELSE named

Skipped == [outcome |-> "skipped"]

Record(key, data) == [outcome |-> "record", key |-> key, data |-> data]

\* The body record of the AMBF path.  The object has no material, no
\* controller gains, no collision margin of its own and no inertia given;
\* its shape is a sphere.
AmbfBodyData(o, body_data) ==
    LET located == With(body_data, "location", Pose6(Round4(o.value)))
    IN  IF o.type = "EMPTY"
        THEN IF o.is_static
             THEN With(located, "mass", <<0>>)
             ELSE With(With(located, "mass", <<o.value>>),
                       "inertia", Xyz(One \div 100))
        ELSE LET massed ==
                     IF o.is_static
                     THEN With(located, "mass", <<0>>)
                     ELSE Without(With(located, "mass", <<Round4(o.value)>>),
                                  "inertia")
                 surfaced ==
                     With(With(With(massed,
                          "friction", <<Round4(o.value), Round4(o.value)>>),
                          "restitution", <<Round4(o.value)>>),
                          "damping", <<Round4(o.value), Round4(o.value)>>)
                 shaped ==
                     IF o.collision_type = "SINGULAR_SHAPE"
                     THEN With(With(surfaced,
                               "collision geometry", <<Round4(o.value)>>),
                               "collision offset", Pose6(Round4(o.value)))
                     ELSE With(surfaced, "compound collision shape",
                               <<Round4(o.value)>> \o Pose6(o.value))
             IN  With(shaped, "inertial offset", Xyz(Round4(o.value)) \o Xyz(0))

generate_body_data_from_ambf_rigid_body(o, namespace) ==
    IF o.ambf_object_type # "RIGID_BODY" THEN Skipped
    ELSE IF ~o.linked THEN Skipped
    ELSE IF o.hidden THEN Skipped
    ELSE Record(add_body_prefix_str(remove_namespace_prefix(o.name)),
                AmbfBodyData(o, NamedBody(o, namespace)))

\* The body record of the legacy path.  No name of these scenes starts with
\* a word of detached_joint_prefix, and none is a name of the world.
BlenderBodyData(o, body_data) ==
    LET located == With(body_data, "location", Pose6(Round4(o.value)))
        rotated(d) == With(d, "body rotation", <<0, 0, 0, 0, 0, 0, 0, 0, 0>>)
    IN  IF o.type = "EMPTY"
        THEN rotated(With(With(located, "mass", <<One \div 10>>),
                          "inertia", Xyz(One \div 100)))
        ELSE LET bodied ==
                     IF o.rigid_body
                     THEN With(With(With(With(With(located,
                          "mass", <<IF o.is_static THEN 0 ELSE Round4(o.value)>>),
                          "friction", <<One \div 100, Round4(o.value)>>),
                          "damping", <<Round4(o.value), Round4(o.value)>>),
                          "restitution", <<Round0(o.value)>>),
                          "collision geometry", <<Round4(o.value) \div 2>>)
                     ELSE located
             IN  rotated(With(Without(bodied, "inertia"),
                              "inertial offset", Xyz(Round4(o.value)) \o Xyz(0)))

generate_body_data_from_blender_rigid_body(o, namespace) ==
    IF o.hidden THEN Skipped
    ELSE Record(add_body_prefix_str(remove_namespace_prefix(o.name)),
                BlenderBodyData(o, NamedBody(o, namespace)))


\* The bodies of a constraint that has both, as the records name them.
JointEnds(objs, o) ==
    [parent |-> remove_namespace_prefix(objs[o.parent].name),
     child |-> remove_namespace_prefix(objs[o.child].name)]

\* What both joint exports write before the parameters: the bodies, the
\* pivots and the axes.
JointBetween(ends, name, value) ==
    LET named == With(With(With(JointTemplateNumbers, "name", name),
                           "parent", add_body_prefix_str(ends.parent)),
                      "child", add_body_prefix_str(ends.child))
    IN  With(With(With(With(named,
             "parent pivot", Xyz(Round4(value))),
             "parent axis", Xyz(Round4(value))),
             "child pivot", Xyz(Round4(value))),
             "child axis", Xyz(Round4(value)))

\* joint_data['type'] for each item of ambf_constraint_type.
JointTypeName(constraint_type) ==
    CASE constraint_type = "REVOLUTE" -> "revolute"
      [] constraint_type = "PRISMATIC" -> "prismatic"
      [] constraint_type = "LINEAR_SPRING" -> "linear spring"
      [] constraint_type = "TORSION_SPRING" -> "angular spring"
      [] constraint_type = "FIXED" -> "fixed"
      [] constraint_type = "P2P" -> "p2p"

\* assign_joint_params_from_ambf_constraint on the numbers of the record;
\* the limits are enabled and the controller gains are not.
AmbfJointParams(o, joint_data) ==
    LET typed == With(joint_data, "type", JointTypeName(o.constraint_type))
        limited ==
            IF o.constraint_type \in {"REVOLUTE", "TORSION_SPRING",
                                      "PRISMATIC", "LINEAR_SPRING"}
            THEN With(With(typed,
                      "joint limits", <<Round4(o.value), Round4(o.value)>>),
                      "max motor impulse", <<o.value>>)
            ELSE typed
        sprung ==
            IF o.constraint_type \in {"LINEAR_SPRING", "TORSION_SPRING"}
            THEN With(limited, "stiffness", <<Round4(o.value)>>)
            ELSE limited
    IN  Without(With(sprung, "damping", <<Round4(o.value)>>), "controller")

\* The offset and the body rotation the AMBF export ends a record with.
AmbfJointData(o, joint_data) ==
    With(With(AmbfJointParams(o, joint_data),
         "offset", <<Round4(o.value)>>),
         "body rotation", <<Round4(o.value), Round4(o.value), Round4(o.value),
                            Round4(o.value), Round4(o.value), Round4(o.value),
                            Round4(o.value), Round4(o.value), Round4(o.value)>>)

valid_constraint(objs, o) ==
    /\ o.parent # None /\ ~objs[o.parent].hidden
    /\ o.child # None /\ ~objs[o.child].hidden

joint_record_from_ambf_constraint(objs, o) ==
    IF o.ambf_object_type # "CONSTRAINT" THEN Skipped
    ELSE IF o.hidden THEN Skipped
    ELSE IF ~valid_constraint(objs, o) THEN Skipped
    ELSE LET ends == JointEnds(objs, o)
             name == IF o.constraint_name = <<>>
                     THEN ends.parent \o <<"-">> \o ends.child
                     ELSE o.constraint_name
         IN  Record(add_joint_prefix_str(name),
                    AmbfJointData(o, JointBetween(ends, name, o.value)))

\* assign_joint_params_from_blender_constraint on the numbers of the
\* record: a hinge with use_limit_ang_z, a slider, a generic spring with
\* use_limit_lin_x and use_spring_x, a fixed constraint; then the offset,
\* and the controller of a hinge or slider without ambf_enable_joint_props.
BlenderJointData(o, joint_data) ==
    LET offset == With(joint_data, "offset", <<Round4(o.value)>>)
    IN  IF o.rbc_type = "HINGE"
        THEN Without(With(With(offset, "type", "revolute"),
                 "joint limits", <<Round4(o.value), Round4(o.value)>>), "controller")
        ELSE IF o.rbc_type = "SLIDER"
        THEN Without(With(With(offset, "type", "prismatic"),
                 "joint limits", <<Round4(o.value), Round4(o.value)>>), "controller")
        ELSE IF o.rbc_type = "GENERIC_SPRING"
        THEN With(With(With(With(offset, "type", "linear spring"),
                 "damping", <<o.value>>),
                 "stiffness", <<o.value>>),
                 "joint limits", <<Round4(o.value), Round4(o.value)>>)
        ELSE Without(With(offset, "type", "fixed"), "joint limits")

Raised(error) == [outcome |-> error]

joint_record_from_blender_constraint(objs, o) ==
    IF o.hidden THEN Skipped
    ELSE IF ~o.rigid_body_constraint THEN Skipped
    ELSE IF o.parent # None /\ objs[o.parent].hidden THEN Skipped
    ELSE IF o.child # None /\ objs[o.child].hidden THEN Skipped
    ELSE IF o.parent = None THEN Skipped
    ELSE IF o.child = None THEN Raised("AttributeError")
    ELSE LET ends == JointEnds(objs, o)
             name == ends.parent \o <<"-">> \o ends.child
         IN  Record(add_joint_prefix_str(name),
                    BlenderJointData(o, JointBetween(ends, name, o.value)))

InitDoc ==
    /\ dobjs \in DocScenes
    /\ dlegacy \in BOOLEAN
    /\ sceneNs \in DocNamespaces
    /\ commonNs = <<>>
    /\ dIdx = 0
    /\ dpc = "start"
    /\ body_names_list = <<>>
    /\ joint_names_list = <<>>
    /\ ambf_yaml = <<>>
    /\ fullName = <<>> /\ nsOut = NoResult /\ nsCalls = <<>>
    /\ TreeIdle /\ KindIdle /\ ExportIdle /\ LoadIdle /\ PassIdle /\ RotIdle
    /\ BodiesIdle /\ ActivateIdle

\* generate_ambf_yaml up to the loops: update_global_namespace.
DocStart ==
    /\ dpc = "start"
    /\ LET r == update_global_namespace(sceneNs)
       IN  IF r.outcome = "ok"
           THEN /\ commonNs' = r.common
                /\ sceneNs' = r.scene
                /\ dpc' = "bodies"
           ELSE /\ dpc' = "raised"
                /\ UNCHANGED <<commonNs, sceneNs>>
    /\ UNCHANGED <<dobjs, dlegacy, dIdx, body_names_list, joint_names_list,
                   ambf_yaml>>
    /\ UNCHANGED notDoc

\* Where the loops go after an object.
AfterObject(loop, next) ==
    IF dIdx + 1 = Len(dobjs)
    THEN dpc' = next /\ dIdx' = 0
    ELSE dpc' = loop /\ dIdx' = dIdx + 1

\* One round of the first loop over _heirarichal_objects_list.
DocBody ==
    /\ dpc = "bodies"
    /\ LET r == IF dlegacy
                THEN generate_body_data_from_blender_rigid_body(dobjs[dIdx + 1], commonNs)
                ELSE generate_body_data_from_ambf_rigid_body(dobjs[dIdx + 1], commonNs)
       IN  IF r.outcome = "record"
           THEN /\ ambf_yaml' = With(ambf_yaml, r.key, r.data)
                /\ body_names_list' = Append(body_names_list, r.key)
           ELSE UNCHANGED <<ambf_yaml, body_names_list>>
    /\ AfterObject("bodies", "joints")
    /\ UNCHANGED <<dobjs, dlegacy, joint_names_list, sceneNs, commonNs>>
    /\ UNCHANGED notDoc

\* One round of the second loop.
DocJoint ==
    /\ dpc = "joints"
    /\ LET r == IF dlegacy
                THEN joint_record_from_blender_constraint(dobjs, dobjs[dIdx + 1])
                ELSE joint_record_from_ambf_constraint(dobjs, dobjs[dIdx + 1])
       IN  IF r.outcome = "record"
           THEN /\ ambf_yaml' = With(ambf_yaml, r.key, r.data)
                /\ joint_names_list' = Append(joint_names_list, r.key)
                /\ AfterObject("joints", "lists")
           ELSE IF r.outcome = "skipped"
           THEN /\ UNCHANGED <<ambf_yaml, joint_names_list>>
                /\ AfterObject("joints", "lists")
           ELSE /\ dpc' = "raised"
                /\ UNCHANGED <<ambf_yaml, joint_names_list, dIdx>>
    /\ UNCHANGED <<dobjs, dlegacy, body_names_list, sceneNs, commonNs>>
    /\ UNCHANGED notDoc

\* The `bodies` and `joints` lists are set and the document is dumped.
DocDump ==
    /\ dpc = "lists"
    /\ dpc' = "dumped"
    /\ UNCHANGED <<dobjs, dlegacy, dIdx, body_names_list, joint_names_list,
                   ambf_yaml, sceneNs, commonNs>>
    /\ UNCHANGED notDoc

NextDoc ==
    \/ DocStart
    \/ DocBody
    \/ DocJoint
    \/ DocDump

SpecDoc == InitDoc /\ [][NextDoc]_vars

Dumped == dpc = "dumped"


Entries(list) == {list[i] : i \in 1..Len(list)}

NoDuplicates(list) == Cardinality(Entries(list)) = Len(list)

\* C21: every number of every body record and joint record of the dumped
\* document is a value rounded to four decimals, on both export paths.
C21_EveryNumberRounded ==
    Dumped =>
        \A key \in DOMAIN ambf_yaml :
            \A x \in Numbers(ambf_yaml[key]) : Rounded4(x)

\* The fields each path writes without round(x, 4): on the AMBF path the
\* mass of an EMPTY body, the offset of the shapes of a compound and the
\* max motor impulse; on the legacy path the damping and stiffness of a
\* spring and the radius of the collision geometry, half of a rounded
\* dimension.
WrittenUnrounded ==
    IF dlegacy THEN {"damping", "stiffness", "collision geometry"}
    ELSE {"mass", "compound collision shape", "max motor impulse"}

\* What holds: every other number of the document is rounded.
RoundingAsCoded ==
    Dumped =>
        \A key \in DOMAIN ambf_yaml :
            \A f \in (DOMAIN ambf_yaml[key] \ TextFields) \ WrittenUnrounded :
                \A i \in 1..Len(ambf_yaml[key][f]) : Rounded4(ambf_yaml[key][f][i])

\* A dumped AMBF document whose max motor impulse is the unrounded property.
UnroundedImpulseDumped ==
    /\ Dumped /\ ~dlegacy
    /\ \E key \in DOMAIN ambf_yaml :
           /\ "max motor impulse" \in DOMAIN ambf_yaml[key]
           /\ ~Rounded4(ambf_yaml[key]["max motor impulse"][1])

\* C22: in the dumped document the `bodies` list and the `joints` list
\* have no entry twice, and there is a record of its own for each entry.
C22_NamesUnique ==
    Dumped =>
        /\ NoDuplicates(body_names_list)
        /\ NoDuplicates(joint_names_list)
        /\ Cardinality(DOMAIN ambf_yaml)
               = Len(body_names_list) + Len(joint_names_list)

LocalNames(objs) == {remove_namespace_prefix(objs[i].name) : i \in 1..Len(objs)}

\* What holds: the keys of the records are the entries of the two lists,
\* and the `bodies` list has no entry twice when the local names of the
\* objects differ.
NamesAsCoded ==
    Dumped =>
        /\ DOMAIN ambf_yaml = Entries(body_names_list) \cup Entries(joint_names_list)
        /\ Cardinality(LocalNames(dobjs)) = Len(dobjs) =>
               NoDuplicates(body_names_list)

\* Two bodies with one local name under two namespaces, both exported.
SameLocalNameDumped ==
    /\ Dumped
    /\ dobjs[1].name = <<"a", "/", "a">> /\ dobjs[2].name = <<"b", "/", "a">>
    /\ Occurrences(body_names_list, add_body_prefix_str(<<"a">>)) = 2

\* C26: every record the `joints` list names has a parent and a child that
\* are entries of the `bodies` list.
C26_JointsReferToExportedBodies ==
    Dumped =>
        \A j \in Entries(joint_names_list) :
            /\ ambf_yaml[j].parent \in Entries(body_names_list)
            /\ ambf_yaml[j].child \in Entries(body_names_list)

\* What holds: it is so on the legacy path, and on the AMBF path when both
\* bodies are rigid bodies linked to the scene.
ReferencesAsCoded ==
    (Dumped /\ (dlegacy \/ \A i \in {1, 2} :
                   dobjs[i].ambf_object_type = "RIGID_BODY" /\ dobjs[i].linked)) =>
        \A j \in Entries(joint_names_list) :
            /\ ambf_yaml[j].parent \in Entries(body_names_list)
            /\ ambf_yaml[j].child \in Entries(body_names_list)


-----------------------------------------------------------------------------
(***************************************************************************)
(* The body loop of AMBF_OT_load_ambf_file.execute: load_body with         *)
(* load_mesh and load_rigid_body_name.  The name of an object is the       *)
(* sequence of the strings it is put together from.                        *)
(***************************************************************************)

\* `['world', 'World', 'WORLD']` of load_mesh
WorldNames == {"world", "World", "WORLD"}

\* body_data['name'] of the bodies of a document
BodyNames == {"world", "World", "link"}

MaxDocBodies == 3

\* The `bodies` list of a document with the record of each entry: up to
\* MaxDocBodies bodies of different names, all with or all without a
\* namespace of their own.
BodyLists ==
    {bodies \in UNION {[1..n -> [key : {"BODY"}, name : BodyNames,
                                 namespace : {NoField, "/ns/"}]] :
                           n \in 1..MaxDocBodies} :
        /\ \A i, j \in 1..Len(bodies) :
               i # j => bodies[i].name # bodies[j].name
        /\ \A i \in 1..Len(bodies) : bodies[i].namespace = bodies[1].namespace}

\* bpy.data.objects before the load.
SceneObjects ==
    {<<>>,
     << [name |-> <<"world">>, type |-> "EMPTY"] >>,
     << [name |-> <<"WORLD">>, type |-> "MESH"] >>,
     << [name |-> <<"world">>, type |-> "CAMERA"] >>,
     << [name |-> <<"Cube">>, type |-> "MESH"],
        [name |-> <<"World">>, type |-> "EMPTY"] >>}

\* The key of the i-th body: the name of its record with the prefix.
BodyKey(body) == <<body.key, body.name>>

\* The objects load_mesh takes for a world body already defined.
WorldObjects(objects) ==
    {i \in 1..Len(objects) :
        /\ objects[i].type \in {"MESH", "EMPTY"}
        /\ Len(objects[i].name) = 1
        /\ objects[i].name[1] \in WorldNames}

Min(S) == CHOOSE x \in S : \A y \in S : x <= y

\* load_mesh: for a world body with a world object in the scene it writes
\* the two maps and returns None; else it returns the imported object.
load_mesh(body_data, objects) ==
    IF body_data.name \in WorldNames /\ WorldObjects(objects) # {}
    THEN [obj_handle |-> None,
          remapped_name |-> objects[Min(WorldObjects(objects))].name]
    ELSE [obj_handle |-> Len(objects) + 1, remapped_name |-> <<>>]

\* The name load_rigid_body_name gives the object; Blender adds a suffix to
\* a name another object has.
RigidBodyName(body_data, namespace, objects) ==
    LET name == IF body_data.namespace # NoField
                THEN <<body_data.namespace, body_data.name>>
                ELSE <<namespace, body_data.name>>
    IN  IF \E i \in 1..Len(objects) : objects[i].name = name
        THEN name \o <<".001">>
        ELSE name

\* CommonConfig.namespace after set_global_namespace(context, '/ambf/env/')
LoadNamespace == "/ambf/env/"

InitBodies ==
    /\ wbodies \in BodyLists
    /\ wobjects \in SceneObjects
    /\ remapped = <<>>
    /\ wtjc = <<>>
    /\ wIdx = 0
    /\ werr = "none"
    /\ wpc = "bodies"
    /\ TreeIdle /\ KindIdle /\ ExportIdle /\ LoadIdle /\ PassIdle /\ RotIdle
    /\ NsIdle /\ DocIdle /\ ActivateIdle

\* One round of `for body_name in bodies_list: self.load_body(body_name)`.
LoadBody ==
    /\ wpc = "bodies"
    /\ wIdx < Len(wbodies)
    /\ LET body_data == wbodies[wIdx + 1]
           mesh == load_mesh(body_data, wobjects)
       IN  IF mesh.obj_handle = None
           THEN \* load_rigid_body_name assigns obj_handle.name of None
                /\ remapped' = With(remapped, BodyKey(body_data), mesh.remapped_name)
                /\ wtjc' = With(wtjc, BodyKey(body_data), Identity3)
                /\ werr' = "AttributeError"
                /\ wpc' = "raised"
                /\ UNCHANGED <<wobjects, wIdx>>
           ELSE LET name == RigidBodyName(body_data, LoadNamespace, wobjects)
                IN  /\ wobjects' = Append(wobjects, [name |-> name, type |-> "MESH"])
                    /\ remapped' = With(remapped, BodyKey(body_data), name)
                    /\ wtjc' = With(wtjc, BodyKey(body_data), Identity3)
                    /\ wIdx' = wIdx + 1
                    /\ wpc' = IF wIdx + 1 = Len(wbodies) THEN "joints" ELSE "bodies"
                    /\ UNCHANGED werr
    /\ UNCHANGED wbodies
    /\ UNCHANGED notBodies

\* The rest of execute after the bodies: the joint loop and the return.
LoadRest ==
    /\ wpc = "joints"
    /\ wpc' = "finished"
    /\ UNCHANGED <<wbodies, wobjects, remapped, wtjc, wIdx, werr>>
    /\ UNCHANGED notBodies

NextBodies ==
    \/ LoadBody
    \/ LoadRest

SpecBodies == InitBodies /\ [][NextBodies]_vars

\* The bodies of the document that were loaded as a world body the scene
\* already had: their name is mapped to an object of before the load.
MetWorld ==
    {i \in 1..Len(wbodies) :
        /\ wbodies[i].name \in WorldNames
        /\ BodyKey(wbodies[i]) \in DOMAIN remapped
        /\ Len(remapped[BodyKey(wbodies[i])]) = 1}

\* The objects the load added: their names start with a namespace.
LoadedObjects == {i \in 1..Len(wobjects) : Len(wobjects[i].name) > 1}

\* C25: for a world body met with a world object in the scene no object is
\* added, the name of the body is mapped to the object there was, its
\* frame is the identity, and the pass goes on without an error.
C25_ExistingWorldIsReused ==
    \A i \in MetWorld :
        /\ Cardinality(LoadedObjects) = Cardinality(DOMAIN remapped \ {BodyKey(wbodies[i])})
        /\ remapped[BodyKey(wbodies[i])][1] \in WorldNames
        /\ wtjc[BodyKey(wbodies[i])] = Identity3
        /\ werr = "none"
        /\ wpc # "raised"

\* What holds: the maps are written and no object is added, and execute is
\* left by the AttributeError of load_rigid_body_name at that body.
ExistingWorldAsCoded ==
    \A i \in MetWorld :
        /\ Cardinality(LoadedObjects) = Cardinality(DOMAIN remapped \ {BodyKey(wbodies[i])})
        /\ remapped[BodyKey(wbodies[i])][1] \in WorldNames
        /\ wtjc[BodyKey(wbodies[i])] = Identity3
        /\ werr = "AttributeError"
        /\ wpc = "raised"
        /\ wIdx = i - 1

\* A document without such a body is loaded to the end.
NoErrorWithoutWorld ==
    (MetWorld = {}) => werr = "none" /\ wpc # "raised"

=============================================================================
